---- MODULE Spec2Model ----
(***************************************************************************)
(* A model of pytsk's binding generator: the feed lexer (lexer.py), the    *)
(* declaration parser and the code emitter (class_parser.py), and the      *)
(* proxy patching performed by the code they generate.                     *)
(***************************************************************************)
EXTENDS Integers, Sequences, FiniteSets, TLC

(***************************************************************************)
(* Regular expressions.  A pattern is a tree of tuples.  EndSet(r, s, i)   *)
(* is the set of positions at which a match of r that starts at position i *)
(* of s can end.  Pick(r, s, i, T) is the end the backtracking matcher of  *)
(* re settles on when the rest of the pattern can be matched exactly from  *)
(* the positions in T: the first end, in the order in which the matcher    *)
(* tries them (greedy repetitions longest first, lazy ones shortest first, *)
(* alternatives left to right), that lies in T.  Characters are            *)
(* one-character strings; a repetition is always over one character class, *)
(* as in every pattern of the rule table.                                  *)
(***************************************************************************)
In(S) == <<"in", S>>
NotIn(S) == <<"notin", S>>
Lit(c) == <<"in", {c}>>
Dot == <<"notin", {}>>
Str(cs) == <<"str", cs>>
Cat(rs) == <<"seq", rs>>
Alt(rs) == <<"alt", rs>>
Opt(r) == <<"opt", r>>
Star(c) == <<"star", c>>
\* A repetition that is content with no character at all.
PlusOrNothing(c) == <<"star", c>>

\* c+
Plus(c) == <<"seq", <<c, <<"star", c>>>>>>
LazyPlus(c) == <<"seq", <<c, <<"lazystar", c>>>>>>

Upper == {"A","B","C","D","E","F","G","H","I","J","K","L","M",
          "N","O","P","Q","R","S","T","U","V","W","X","Y","Z"}
Lower == {"a","b","c","d","e","f","g","h","i","j","k","l","m",
          "n","o","p","q","r","s","t","u","v","w","x","y","z"}
Digit == {"0","1","2","3","4","5","6","7","8","9"}
Space == {" ", "\t", "\n", "\r", "\f"}
Word == Upper \cup Lower \cup Digit \cup {"_"}

NoMatch == -1

SetMax(S) == CHOOSE x \in S : \A y \in S : y <= x
SetMin(S) == CHOOSE x \in S : \A y \in S : x <= y

\* Does the character ch belong to the character class c?
InClass(c, ch) == IF c[1] = "in" THEN ch \in c[2] ELSE ch \notin c[2]

\* The number of characters of s after position i that belong to class c
\* without interruption.
Run(c, s, i) ==
    SetMin({j \in (i + 1)..(Len(s) + 1) : j = Len(s) + 1 \/ ~InClass(c, s[j])}) - i - 1

RECURSIVE EndSet(_, _, _), FwdSet(_, _, _, _), AltSet(_, _, _, _)

EndSet(r, s, i) ==
    CASE r[1] \in {"in", "notin"} ->
            IF i < Len(s) /\ InClass(r, s[i + 1]) THEN {i + 1} ELSE {}
      [] r[1] = "str" ->
            IF i + Len(r[2]) <= Len(s) /\ \A k \in 1..Len(r[2]) : s[i + k] = r[2][k]
            THEN {i + Len(r[2])} ELSE {}
      [] r[1] = "seq" -> FwdSet(r[2], Len(r[2]), s, i)
      [] r[1] = "alt" -> AltSet(r[2], 1, s, i)
      [] r[1] = "opt" -> EndSet(r[2], s, i) \cup {i}
      [] r[1] \in {"star", "lazystar"} -> i..(i + Run(r[2], s, i))

\* The positions reached from i by matching rs[1], ..., rs[k] in a row.
FwdSet(rs, k, s, i) ==
    IF k = 0 THEN {i}
    ELSE UNION {EndSet(rs[k], s, p) : p \in FwdSet(rs, k - 1, s, i)}

AltSet(rs, k, s, i) ==
    IF k > Len(rs) THEN {} ELSE EndSet(rs[k], s, i) \cup AltSet(rs, k + 1, s, i)

RECURSIVE BwdSet(_, _, _, _, _)

\* The positions, among those reached from i by rs[1..k-1], from which
\* rs[k], ..., rs[Len(rs)] can be matched in a row so as to end in T.
BwdSet(rs, k, s, i, T) ==
    IF k > Len(rs) THEN FwdSet(rs, Len(rs), s, i) \cap T
    ELSE LET N == BwdSet(rs, k + 1, s, i, T)
         IN  {p \in FwdSet(rs, k - 1, s, i) : EndSet(rs[k], s, p) \cap N # {}}

RECURSIVE Pick(_, _, _, _), PickCat(_, _, _, _, _, _), PickAlt(_, _, _, _, _)

Pick(r, s, i, T) ==
    CASE r[1] \in {"in", "notin", "str"} ->
            LET es == EndSet(r, s, i)
            IN  IF es = {} THEN NoMatch
                ELSE IF es \cap T = {} THEN NoMatch ELSE SetMax(es \cap T)
      [] r[1] = "seq" ->
            IF FwdSet(r[2], Len(r[2]), s, i) \cap T = {} THEN NoMatch
            ELSE PickCat(r[2], 1, s, i, i, T)
      [] r[1] = "alt" -> PickAlt(r[2], 1, s, i, T)
      [] r[1] = "opt" ->
            LET e == Pick(r[2], s, i, T)
            IN  IF e # NoMatch THEN e ELSE IF i \in T THEN i ELSE NoMatch
      [] r[1] = "star" ->
            LET es == EndSet(r, s, i) \cap T IN IF es = {} THEN NoMatch ELSE SetMax(es)
      [] r[1] = "lazystar" ->
            LET es == EndSet(r, s, i) \cap T IN IF es = {} THEN NoMatch ELSE SetMin(es)

\* rs[1..k-1] have been matched from i0 up to cur: settle rs[k], then the rest.
PickCat(rs, k, s, i0, cur, T) ==
    IF k > Len(rs) THEN (IF cur \in T THEN cur ELSE NoMatch)
    ELSE LET e == Pick(rs[k], s, cur, BwdSet(rs, k + 1, s, i0, T))
         IN  IF e = NoMatch THEN NoMatch ELSE PickCat(rs, k + 1, s, i0, e, T)

PickAlt(rs, k, s, i, T) ==
    IF k > Len(rs) THEN NoMatch
    ELSE LET e == Pick(rs[k], s, i, T)
         IN  IF e # NoMatch THEN e ELSE PickAlt(rs, k + 1, s, i, T)

\* regex.match(s): the end of the match at the start of s, or NoMatch.
MatchEnd(r, s) == Pick(r, s, 0, 0..Len(s))

(***************************************************************************)
(* The rule table of HeaderParser.  Each row is                            *)
(* [state_re, re, token, next]; Lexer.__init__ compiles state_re and re.   *)
(* A leading ^ is left out: under re.match it holds at position 0.         *)
(***************************************************************************)
None == "None"

NL == Lit("\n")
Sp0 == Star(In(Space))
Sp1 == Plus(In(Space))
Ident == Plus(In(Word))
TypeChars == Plus(In(Word \cup {" "}))
NotNL1 == Plus(NotIn({"\n"}))

kw_define == <<"#","d","e","f","i","n","e">>
kw_CLASS == <<"C","L","A","S","S","(">>
kw_METHOD == <<"M","E","T","H","O","D","(">>
kw_END_CLASS == <<"E","N","D","_","C","L","A","S","S">>
kw_FOREIGN == <<"F","O","R","E","I","G","N">>
kw_ABSTRACT == <<"A","B","S","T","R","A","C","T">>
kw_PRIVATE == <<"P","R","I","V","A","T","E">>
kw_struct == <<"s","t","r","u","c","t">>
kw_union == <<"u","n","i","o","n">>
kw_typedef == <<"t","y","p","e","d","e","f">>
kw_enum == <<"e","n","u","m">>
kw_BIND_STRUCT == <<"B","I","N","D","_","S","T","R","U","C","T","(">>
kw_PROXY == <<"P","X","X","R","O","X","Y","_","C","L","A","S","S","(">>

st_INITIAL == <<"I","N","I","T","I","A","L">>
st_DEFINE == <<"D","E","F","I","N","E">>
st_COMMENT == <<"C","O","M","M","E","N","T">>
st_CLASS == <<"C","L","A","S","S">>
st_METHOD == <<"M","E","T","H","O","D">>
st_STRUCT == <<"S","T","R","U","C","T">>
st_RECURSIVE_ == <<"R","E","C","U","R","S","I","V","E","_">>
st_ENUM == <<"E","N","U","M">>

Rule(sre, re, token, next) == [state_re |-> sre, re |-> re, token |-> token, next |-> next]

tokens == <<
    Rule(Str(st_INITIAL), Cat(<<Str(kw_define), Sp1>>), "PUSH_STATE", "DEFINE"),
    Rule(Str(st_DEFINE), Cat(<<Ident, Sp1, NotNL1>>), "DEFINE,POP_STATE", None),
    Rule(Str(st_DEFINE), NL, "POP_STATE", None),
    Rule(Str(st_DEFINE), Cat(<<Lit("("), NotNL1>>), "POP_STATE", None),
    Rule(Dot, Cat(<<Lit("/"), Lit("*"), Dot>>), "PUSH_STATE", "COMMENT"),
    Rule(Str(st_COMMENT), Cat(<<LazyPlus(Dot), Lit("*"), Lit("/"), Sp1>>),
         "COMMENT_END,POP_STATE", None),
    Rule(Str(st_COMMENT), Plus(Dot), "COMMENT", None),
    Rule(Dot, Cat(<<Lit("/"), Lit("/"), NotNL1>>), "COMMENT", None),
    Rule(Dot, Cat(<<Opt(Lit("\r")), NL, Opt(Lit("\r")), NL>>), "CLEAR_COMMENT", None),
    Rule(Dot, Sp1, "SPACE", None),
    Rule(Dot, Cat(<<Lit("\\"), NL>>), "SPACE", None),
    Rule(Str(st_INITIAL),
         Cat(<<Opt(Plus(In(Upper))), Sp0, Str(kw_CLASS), Ident, Sp0, Lit(","), Sp0,
               Ident, Lit(")")>>),
         "PUSH_STATE,CLASS_START", "CLASS"),
    Rule(Str(st_CLASS),
         Cat(<<Sp0, Opt(Alt(<<Str(kw_FOREIGN), Str(kw_ABSTRACT), Str(kw_PRIVATE)>>)),
               TypeChars, In({" ", "*"}), Str(kw_METHOD), Ident, Lit(","), Sp0, Ident,
               Opt(Lit(","))>>),
         "PUSH_STATE,METHOD_START", "METHOD"),
    Rule(Str(st_METHOD),
         Cat(<<Sp0, TypeChars, Sp1, Opt(Lit("*")), Opt(Lit("*")), Ident, Opt(Lit(","))>>),
         "METHOD_ARG", None),
    Rule(Str(st_METHOD), Cat(<<Lit(")"), Lit(";")>>), "POP_STATE,METHOD_END", None),
    Rule(Str(st_CLASS),
         Cat(<<Sp0, Opt(Alt(<<Str(kw_FOREIGN), Str(kw_ABSTRACT)>>)), TypeChars, Sp1,
               Opt(Lit("*")), Sp0, Ident, Sp0, Lit(";")>>),
         "CLASS_ATTRIBUTE", None),
    Rule(Str(st_CLASS), Str(kw_END_CLASS), "END_CLASS,POP_STATE", None),
    Rule(Str(st_INITIAL),
         Cat(<<Opt(TypeChars), Str(kw_struct), Sp1, Ident, Sp1, Lit("{")>>),
         "PUSH_STATE,STRUCT_START", "STRUCT"),
    Rule(Str(st_INITIAL), Cat(<<Str(kw_typedef), Sp1, Str(kw_struct), Sp1, Lit("{")>>),
         "PUSH_STATE,TYPEDEF_STRUCT_START", "STRUCT"),
    Rule(Str(st_STRUCT),
         Cat(<<Sp0, TypeChars, Sp1, Opt(Lit("*")), Sp0, Ident,
               Opt(Cat(<<Lit("["), Ident, Lit("]")>>)), Sp0, Lit(";")>>),
         "STRUCT_ATTRIBUTE", None),
    Rule(Str(st_STRUCT), Cat(<<Sp0, TypeChars, Lit("*"), Sp1, Ident, Sp0, Lit(";")>>),
         "STRUCT_ATTRIBUTE_PTR", None),
    Rule(Str(st_STRUCT), Cat(<<Lit("}"), Sp1, Ident, Lit(";")>>),
         "POP_STATE,TYPEDEF_STRUCT_END", None),
    Rule(Str(st_STRUCT), Lit("}"), "POP_STATE,STRUCT_END", None),
    Rule(Cat(<<Opt(Str(st_RECURSIVE_)), Str(st_STRUCT)>>),
         Cat(<<Alt(<<Str(kw_struct), Str(kw_union)>>), Sp1, Opt(Ident), Sp0, Lit("{")>>),
         "PUSH_STATE", "RECURSIVE_STRUCT"),
    Rule(Cat(<<Str(st_RECURSIVE_), Str(st_STRUCT)>>),
         Cat(<<Lit("}"), Sp1, Plus(In(Upper \cup Lower \cup Digit))>>), "POP_STATE", None),
    Rule(Str(st_INITIAL), Cat(<<Str(kw_enum), Sp1, Ident, Sp1, Lit("{")>>),
         "PUSH_STATE,ENUM_START", "ENUM"),
    Rule(Str(st_INITIAL), Cat(<<Str(kw_typedef), Sp1, Str(kw_enum), Sp1, Lit("{")>>),
         "PUSH_STATE,TYPEDEF_ENUM_START", "ENUM"),
    Rule(Str(st_ENUM), Cat(<<Ident, Sp1, Lit("="), NotNL1>>), "ENUM_VALUE", None),
    Rule(Str(st_ENUM), Cat(<<Lit("}"), Sp1, Ident, Lit(";")>>),
         "POP_STATE,TYPEDEFED_ENUM_END", None),
    Rule(Str(st_ENUM), Lit("}"), "POP_STATE,ENUM_END", None),
    Rule(Str(st_INITIAL),
         Cat(<<Str(kw_BIND_STRUCT), Plus(In(Word \cup {" ", "*"})), Lit(")")>>),
         "BIND_STRUCT", None),
    Rule(Str(st_INITIAL),
         Cat(<<Str(kw_typedef), Lit(" "), Ident, Plus(Lit(" ")), Plus(NotIn({";"})),
               Lit(";")>>),
         "SIMPLE_TYPEDEF", None),
    Rule(Str(st_INITIAL), Cat(<<Str(kw_PROXY), Ident, Lit(")")>>), "PROXY_CLASS", None)
>>

\* The names of the lexer states, as the characters state.match() sees.
StateChars ==
    ("INITIAL" :> st_INITIAL) @@ ("DEFINE" :> st_DEFINE) @@ ("COMMENT" :> st_COMMENT) @@
    ("CLASS" :> st_CLASS) @@ ("METHOD" :> st_METHOD) @@ ("STRUCT" :> st_STRUCT) @@
    ("RECURSIVE_STRUCT" :> st_RECURSIVE_ \o st_STRUCT) @@ ("ENUM" :> st_ENUM)

LexStates == DOMAIN StateChars

\* state.match(current_state): the rule's state matcher matches a prefix of
\* the name of the current state.
StateMatches(rule, st) == MatchEnd(rule.state_re, StateChars[st]) # NoMatch

\* The rows of the table that apply in each state.
Applicable == [st \in LexStates |-> {i \in 1..Len(tokens) : StateMatches(tokens[i], st)}]

\* token.split(','): the action names of a rule.
SplitComma(token) ==
    CASE token = "DEFINE,POP_STATE" -> <<"DEFINE", "POP_STATE">>
      [] token = "COMMENT_END,POP_STATE" -> <<"COMMENT_END", "POP_STATE">>
      [] token = "PUSH_STATE,CLASS_START" -> <<"PUSH_STATE", "CLASS_START">>
      [] token = "PUSH_STATE,METHOD_START" -> <<"PUSH_STATE", "METHOD_START">>
      [] token = "POP_STATE,METHOD_END" -> <<"POP_STATE", "METHOD_END">>
      [] token = "END_CLASS,POP_STATE" -> <<"END_CLASS", "POP_STATE">>
      [] token = "PUSH_STATE,STRUCT_START" -> <<"PUSH_STATE", "STRUCT_START">>
      [] token = "PUSH_STATE,TYPEDEF_STRUCT_START" -> <<"PUSH_STATE", "TYPEDEF_STRUCT_START">>
      [] token = "POP_STATE,TYPEDEF_STRUCT_END" -> <<"POP_STATE", "TYPEDEF_STRUCT_END">>
      [] token = "POP_STATE,STRUCT_END" -> <<"POP_STATE", "STRUCT_END">>
      [] token = "PUSH_STATE,ENUM_START" -> <<"PUSH_STATE", "ENUM_START">>
      [] token = "PUSH_STATE,TYPEDEF_ENUM_START" -> <<"PUSH_STATE", "TYPEDEF_ENUM_START">>
      [] token = "POP_STATE,TYPEDEFED_ENUM_END" -> <<"POP_STATE", "TYPEDEFED_ENUM_END">>
      [] token = "POP_STATE,ENUM_END" -> <<"POP_STATE", "ENUM_END">>
      [] OTHER -> <<token>>

(***************************************************************************)
(* The feed lexer (lexer.py).                                              *)
(***************************************************************************)
StuckLimit == 1024
MaxFeeds == 2

\* The pieces of input handed to feed().
Fragments ==
    { <<"/", "*", "x">>,
      <<"y", "*", "/", " ">>,
      <<"\n", "\n">>,
      <<"e", "n", "u", "m", " ", "A", " ", "{", "/", "*", "x">> }

\* An input none of whose bytes starts a token, one byte longer than the
\* lexer tolerates unconsumed.
Junk == [i \in 1..(StuckLimit + 1) |-> "!"]

VARIABLES
    state,              \* Lexer.state
    state_stack,        \* Lexer.state_stack
    buffer,             \* Lexer.buffer
    error,              \* Lexer.error
    processed,          \* Lexer.processed
    processed_buffer,   \* Lexer.processed_buffer
    op,                 \* the operation called last
    ret,                \* what the last next_token() returned
    rule_ix,            \* the row of the table the last next_token() applied, or 0
    current_state,      \* next_token's local current_state
    m_end,              \* next_token's m.end()
    end_seen,           \* the argument end the last next_token() tested, TRUE if none
    calls,              \* the callbacks the last next_token() made, in order
    callbacks,          \* whose handlers are installed
    feeds,              \* the number of feed() calls so far
    closing             \* close() is draining the lexer

lexvars == <<state, state_stack, buffer, error, processed, processed_buffer, op, ret,
             rule_ix, current_state, m_end, end_seen, calls, callbacks, feeds, closing>>

VARIABLES
    classes,            \* Module.classes: class name -> ClassGenerator
    current_class,      \* HeaderParser.current_class, by name
    current_method,     \* HeaderParser.current_method
    parse_state,        \* the lexer state the header parser is in
    pass_no,            \* the pass of parse_filenames under way, 3 when both are over
    header,             \* the declarations of the header files, in order
    pos,                \* the number of declarations the pass under way has read
    handler,            \* the handler called last
    decl,               \* the declaration the last METHOD_START was called for
    before,             \* the class table before the last handler ran
    pass1               \* the class table at the end of the first pass

parsevars == <<classes, current_class, current_method, parse_state, pass_no, header, pos,
               handler, decl, before, pass1>>

VARIABLES
    base_of,            \* the class table written out: cls.base_class_name
    active,             \* the class table written out: cls.is_active()
    done,               \* Module.write's set done
    out,                \* what initialise_class has written, in order
    frames,             \* the initialise_class calls under way, innermost last
    key_ix              \* the position of Module.write's loop in classes.keys()

emitvars == <<base_of, active, done, out, frames, key_ix>>

VARIABLES
    methods,            \* ClassGenerator.methods of the wrapped class
    constructor,        \* the class of ClassGenerator.constructor
    proxied,            \* the positions in methods that have the attribute proxied
    function_definitions, \* Module.function_definitions
    patches,            \* the statements of the generated initialize_proxies
    phase,              \* how far generation and the generated code have run
    mro,                \* tp_mro of the type of the wrapper constructed
    slots,              \* the method slots of the native object
    extension,          \* ((Object) item)->extension is set
    call                \* the last native call through a slot

proxyvars == <<methods, constructor, proxied, function_definitions, patches, phase, mro,
               slots, extension, call>>

VARIABLES
    proxied_method,     \* the ProxiedMethod whose definition is written
    definition,         \* the statements ProxiedMethod._write_definition wrote
    pc,                 \* the statement of the trampoline about to run, 0 outside a call
    gil,                \* PyGILState_Ensure calls not yet matched by a release
    ensured,            \* PyGILState_Ensure calls of the call under way or just over
    released,           \* PyGILState_Release calls of the call under way or just over
    self_extension,     \* ((Object) self)->extension is not NULL
    py_err,             \* what PyErr_Occurred() answers
    exit_path           \* how the last call of the trampoline left it

trampvars == <<proxied_method, definition, pc, gil, ensured, released, self_extension,
               py_err, exit_path>>

VARIABLES
    wrapped_method,     \* the Method whose definition is written
    allow_threads,      \* between Py_BEGIN_ALLOW_THREADS and Py_END_ALLOW_THREADS
    native_calls,       \* allow_threads at each call of the wrapped function
    mistyped,           \* the type an object passed as argument failed to be of, or ""
    py_exception        \* the exception PyErr_Format set

wrapvars == <<wrapped_method, allow_threads, native_calls, mistyped, py_exception>>

VARIABLES
    header_parser,      \* the fields of the HeaderParser and of its Module
    parsed              \* the headers handed to parse_fd so far

headervars == <<header_parser, parsed>>

VARIABLES
    python_wrappers,    \* the registry: the entries of python_wrappers
    wrappers,           \* the wrapper objects: Gen_wrapper_t
    allocated,          \* the number of native objects allocated so far
    freed,              \* the native objects freed, in order
    resolved,           \* the class new_class_wrapper was given last, and its answer
    dealloc,            \* the wrapper the last destructor ran on, and whether it freed
    crashed             \* a call through a NULL pointer has ended the process

objvars == <<python_wrappers, wrappers, allocated, freed, resolved, dealloc, crashed>>

\* The variables of the sub-models that follow the proxies, and for each of
\* them those of the others.
VARIABLES
    conversion,         \* the conversion at hand: the int_type and the managed integer
    destination,        \* the native variable the conversion assigns
    py_back,            \* the managed integer made from destination
    conv_raised,        \* the conversion set a Python exception
    conv_pc             \* "managed", "native" or "back"

convvars == <<conversion, destination, py_back, conv_raised, conv_pc>>

VARIABLES
    saved_state,        \* Lexer.saved_state
    stack_shared,       \* self.state_stack is the list in saved_state
    fd_pos,             \* self.fd.tell()
    snapshot,           \* the lexer's fields at the last save_state() without errors
    restores            \* the number of restore_state() calls so far

savevars == <<saved_state, stack_shared, fd_pos, snapshot, restores>>

VARIABLES
    fed                 \* all the data handed to feed() so far

bytevars == <<fed>>

VARIABLES
    doc                 \* HeaderParser.current_comment and the docstrings assigned so far

docvars == <<doc>>

VARIABLES
    pass_files,         \* the blocks of the header files, in the order of the files
    pass_table,         \* Module.classes
    pass_pos,           \* the number of files the running pass has parsed,
    passes              \* the number of passes that are over

passvars == <<pass_files, pass_table, pass_pos, passes>>

VARIABLES
    rw_methods,         \* the methods of the wrapped class
    rw_objects,         \* the managed objects that wrap the instance: the resolution order of each
    rw_slots,           \* the method slots of the native instance
    rw_extension,       \* ((Object) item)->extension, by number; 0 is NULL
    rw_runs,            \* how often initialize_proxies ran on the instance
    rw_built,           \* the method slots as the constructor left them,
    rw_call             \* the last call through a slot

rewrapvars == <<rw_methods, rw_objects, rw_slots, rw_extension, rw_runs, rw_built, rw_call>>

VARIABLES
    arg_decl,           \* the declaration the handlers are given
    arg_registry,       \* type_dispatcher
    arg_built,          \* current_method or current_struct: the return type and self.args or the attributes
    arg_pos,            \* the number of parameters or attributes handled
    arg_raised,         \* the exception that left a handler, "" when none did
    arg_added,          \* what METHOD_END and STRUCT_END added to the model
    arg_out,            \* what write_local_vars wrote,
    arg_phase           \* how far the declaration has got

argvars == <<arg_decl, arg_registry, arg_built, arg_pos, arg_raised, arg_added, arg_out, arg_phase>>

VARIABLES
    fd_parser,          \* the number of HeaderParser instances constructed,
    fd_starts           \* the state and the state stack at the start of every parse_fd call

fdvars == <<fd_parser, fd_starts>>

VARIABLES
    reg                 \* the classes of the module, what Module.write made of them, and python_wrappers

regvars == <<reg>>

latevars == <<bytevars, docvars, passvars, rewrapvars, argvars, fdvars, regvars>>

byterest ==
    <<parsevars, emitvars, proxyvars, trampvars, wrapvars, headervars, objvars,
      convvars, savevars, docvars, passvars, rewrapvars, argvars, fdvars, regvars>>
docrest ==
    <<parsevars, emitvars, proxyvars, trampvars, wrapvars, headervars, objvars,
      convvars, savevars, bytevars, passvars, rewrapvars, argvars, fdvars, regvars>>
passrest ==
    <<lexvars, parsevars, emitvars, proxyvars, trampvars, wrapvars, headervars,
      objvars, convvars, savevars, bytevars, docvars, rewrapvars, argvars, fdvars,
      regvars>>
rewraprest ==
    <<lexvars, parsevars, emitvars, proxyvars, trampvars, wrapvars, headervars,
      objvars, convvars, savevars, bytevars, docvars, passvars, argvars, fdvars,
      regvars>>
argrest ==
    <<lexvars, parsevars, emitvars, proxyvars, trampvars, wrapvars, headervars,
      objvars, convvars, savevars, bytevars, docvars, passvars, rewrapvars, fdvars,
      regvars>>
fdrest ==
    <<parsevars, emitvars, proxyvars, trampvars, wrapvars, headervars, objvars,
      convvars, savevars, bytevars, docvars, passvars, rewrapvars, argvars, regvars>>
regrest ==
    <<lexvars, parsevars, emitvars, proxyvars, trampvars, wrapvars, headervars,
      objvars, convvars, savevars, bytevars, docvars, passvars, rewrapvars, argvars,
      fdvars>>

morevars == <<trampvars, wrapvars, headervars, objvars, convvars, savevars, latevars>>
tramprest ==
    <<lexvars, parsevars, emitvars, proxyvars, wrapvars, headervars, objvars,
      convvars, savevars, latevars>>
wraprest ==
    <<lexvars, parsevars, emitvars, proxyvars, headervars, objvars,
      convvars, savevars, latevars>>
headerrest ==
    <<parsevars, emitvars, proxyvars, trampvars, wrapvars, objvars,
      convvars, savevars, latevars>>
convrest == <<lexvars, parsevars, emitvars, proxyvars, trampvars, wrapvars, headervars,
              objvars, savevars, latevars>>
saverest == <<parsevars, emitvars, proxyvars, trampvars, wrapvars, headervars, objvars,
              convvars, latevars>>

objrest ==
    <<lexvars, parsevars, emitvars, proxyvars, trampvars, wrapvars, headervars,
      convvars, savevars, latevars>>

\* Python truth of a returned state or token.
Truthy(v) == v # None /\ v # ""

\* The handlers HeaderParser defines; any other action name other than
\* PUSH_STATE and POP_STATE reaches default_handler.
HeaderHandlers ==
    {"DEFINE", "COMMENT", "COMMENT_END", "CLEAR_COMMENT", "CLASS_START", "METHOD_START",
     "METHOD_ARG", "METHOD_END", "CLASS_ATTRIBUTE", "END_CLASS", "STRUCT_START",
     "TYPEDEF_STRUCT_START", "STRUCT_ATTRIBUTE", "STRUCT_ATTRIBUTE_PTR", "STRUCT_END",
     "TYPEDEF_STRUCT_END", "ENUM_START", "TYPEDEF_ENUM_START", "ENUM_VALUE", "ENUM_END",
     "TYPEDEFED_ENUM_END", "BIND_STRUCT", "SIMPLE_TYPEDEF", "PROXY_CLASS"}

\* What a handler of a subclass may hand back to next_token.  Every handler
\* of HeaderParser returns None; a handler of another subclass of Lexer may
\* return a state or "CONTINUE".
HandlerReturns(cb) ==
    IF cb = "HeaderParser" THEN {None} ELSE {None, "CONTINUE", "COMMENT"}

\* A scan that prefers the row matching the longest prefix.
ScanRulesLongest(i, st, buf) ==
    LET match == {j \in Applicable[st] : j >= i /\ MatchEnd(tokens[j].re, buf) # NoMatch}
    IN  IF match = {} THEN 0
        ELSE CHOOSE j \in match :
                \A h \in match :
                    \/ MatchEnd(tokens[h].re, buf) < MatchEnd(tokens[j].re, buf)
                    \/ MatchEnd(tokens[h].re, buf) = MatchEnd(tokens[j].re, buf) /\ j <= h

\* The first row, from row i on, whose state matcher matches st and whose
\* pattern matches at the start of buf; 0 when there is none.
RECURSIVE ScanRules(_, _, _)
ScanRules(i, st, buf) ==
    IF i > Len(tokens) THEN 0
    ELSE IF i \in Applicable[st] /\ MatchEnd(tokens[i].re, buf) # NoMatch THEN i
    ELSE ScanRules(i + 1, st, buf)

\* A POP_STATE that takes the oldest state of the stack instead of the newest.
CallbackFifo(t, st, stack, given) ==
    CASE t = "PUSH_STATE" -> [ret |-> None, stack |-> Append(stack, st)]
      [] t = "POP_STATE" ->
            IF stack # <<>>
            THEN [ret |-> stack[1], stack |-> SubSeq(stack, 2, Len(stack))]
            ELSE [ret |-> None, stack |-> stack]
      [] t \in HeaderHandlers -> [ret |-> given, stack |-> stack]
      [] OTHER -> [ret |-> None, stack |-> stack]

\* Lexer.PUSH_STATE, Lexer.POP_STATE, default_handler or a subclass's handler
\* called for the action t; the result holds what it returns and the stack
\* it leaves.
Callback(t, st, stack, given) ==
    CASE t = "PUSH_STATE" -> [ret |-> None, stack |-> Append(stack, st)]
      [] t = "POP_STATE" ->
            IF stack # <<>>
            THEN [ret |-> stack[Len(stack)], stack |-> SubSeq(stack, 1, Len(stack) - 1)]
            ELSE [ret |-> None, stack |-> stack]
      [] t \in HeaderHandlers -> [ret |-> given, stack |-> stack]
      [] OTHER -> [ret |-> None, stack |-> stack]

\* Python truth alone decides whether a returned value is a state.
IsState(v) == Truthy(v)

\* "if next_state == 'CONTINUE': continue / elif next_state:": the value a
\* callback returned is a state to move to.
IsNewState(v) == v # "CONTINUE" /\ Truthy(v)

\* The loop over token.split(','): cur holds self.state, self.state_stack
\* and the local next.
RECURSIVE RunCallbacks(_, _, _, _)
RunCallbacks(acts, k, cur, rets) ==
    IF k > Len(acts) THEN cur
    ELSE LET c == Callback(acts[k], cur.state, cur.stack, rets[k])
             upd == IsNewState(c.ret)
             after == [state |-> IF upd THEN c.ret ELSE cur.state,
                       stack |-> c.stack,
                       next |-> IF upd THEN c.ret ELSE cur.next,
                       calls |-> Append(cur.calls,
                                        [name |-> acts[k], ret |-> c.ret,
                                         state_before |-> cur.state,
                                         stack_before |-> cur.stack,
                                         state_after |-> IF upd THEN c.ret ELSE cur.state,
                                         stack_after |-> c.stack])]
         IN  RunCallbacks(acts, k + 1, after, rets)

\* What the callbacks of a rule with the action names acts may return, one
\* entry per action: only a handler of the subclass has a choice.
RetChoices(acts) ==
    {rets \in [DOMAIN acts -> HandlerReturns(callbacks)] :
        \A j \in DOMAIN acts : acts[j] \notin HeaderHandlers => rets[j] = None}

\* A lexer that gives up one byte early.
StuckEarly(end, buf) == (end /\ Len(buf) > 0) \/ Len(buf) >= StuckLimit

\* "if end and len(self.buffer)>0 or len(self.buffer)>1024": the lexer is
\* stuck on the bytes in buf.
Stuck(end, buf) == (end /\ Len(buf) > 0) \/ Len(buf) > StuckLimit

\* Lexer.next_token(end)
next_token(end) ==
    LET k == ScanRules(1, state, buffer)
        e == MatchEnd(tokens[k].re, buffer)
        acts == SplitComma(tokens[k].token)
    IN
    /\ op' = "next_token"
    /\ current_state' = state
    /\ rule_ix' = k
    /\ UNCHANGED <<callbacks, feeds>>
    /\ IF k # 0
       THEN /\ processed_buffer' = processed_buffer \o SubSeq(buffer, 1, e)
            /\ buffer' = SubSeq(buffer, e + 1, Len(buffer))
            /\ processed' = processed + e
            /\ m_end' = e
            /\ end_seen' = TRUE
            /\ ret' = tokens[k].token
            /\ error' = error
            /\ \E rets \in RetChoices(acts) :
                  LET r == RunCallbacks(acts, 1,
                                        [state |-> state, stack |-> state_stack,
                                         next |-> tokens[k].next, calls |-> <<>>], rets)
                  IN  /\ state' = IF Truthy(r.next) THEN r.next ELSE r.state
                      /\ state_stack' = r.stack
                      /\ calls' = r.calls
       ELSE /\ m_end' = 0
            /\ calls' = <<>>
            /\ UNCHANGED <<state, state_stack, processed>>
            /\ end_seen' = end
            /\ IF Stuck(end, buffer)
               THEN /\ processed_buffer' = processed_buffer \o SubSeq(buffer, 1, 1)
                    /\ buffer' = SubSeq(buffer, 2, Len(buffer))
                    /\ error' = error + 1
                    /\ ret' = "ERROR"
               ELSE /\ ret' = None
                    /\ UNCHANGED <<processed_buffer, buffer, error>>

\* Lexer.feed(data)
feed(data) ==
    /\ buffer' = buffer \o data
    /\ op' = "feed"
    /\ UNCHANGED <<state, state_stack, error, processed, processed_buffer, ret, rule_ix,
                   current_state, m_end, end_seen, calls, callbacks>>

Feed ==
    /\ ~closing
    /\ feeds < MaxFeeds
    /\ \E data \in Fragments : feed(data)
    /\ feeds' = feeds + 1
    /\ UNCHANGED closing
    /\ UNCHANGED <<parsevars, emitvars, proxyvars, morevars>>

FeedJunk ==
    /\ ~closing
    /\ feeds = 0
    /\ feed(Junk)
    /\ feeds' = MaxFeeds
    /\ UNCHANGED closing
    /\ UNCHANGED <<parsevars, emitvars, proxyvars, morevars>>

NextToken ==
    /\ ~closing
    /\ \E end \in BOOLEAN : next_token(end)
    /\ UNCHANGED closing
    /\ UNCHANGED <<parsevars, emitvars, proxyvars, morevars>>

\* Lexer.close(): while self.next_token(): pass
CloseBegin ==
    /\ ~closing
    /\ closing' = TRUE
    /\ op' = "close"
    /\ UNCHANGED <<state, state_stack, buffer, error, processed, processed_buffer, ret,
                   rule_ix, current_state, m_end, end_seen, calls, callbacks, feeds>>
    /\ UNCHANGED <<parsevars, emitvars, proxyvars, morevars>>

CloseStep ==
    /\ closing
    /\ next_token(TRUE)
    /\ closing' = Truthy(ret')
    /\ UNCHANGED <<parsevars, emitvars, proxyvars, morevars>>

LexInit ==
    /\ state = "INITIAL"
    /\ state_stack = <<>>
    /\ buffer = <<>>
    /\ error = 0
    /\ processed = 0
    /\ processed_buffer = <<>>
    /\ op = "init"
    /\ ret = None
    /\ rule_ix = 0
    /\ current_state = "INITIAL"
    /\ m_end = 0
    /\ end_seen = TRUE
    /\ calls = <<>>
    /\ callbacks \in {"HeaderParser", "any"}
    /\ feeds = 0
    /\ closing = FALSE

LexNext == Feed \/ FeedJunk \/ NextToken \/ CloseBegin \/ CloseStep

(***************************************************************************)
(* The class table the header parser builds (class_parser.py).             *)
(***************************************************************************)
MaxDecls == 8

\* The declarations the headers are made of: CLASS(name, type), a METHOD
\* with its modifier, return type and name, and END_CLASS.
ClassDecls ==
    { [kind |-> "CLASS", modifier |-> "", type |-> "Object", name |-> "Base"],
      [kind |-> "CLASS", modifier |-> "", type |-> "Base", name |-> "Derived"] }

MethodDecls ==
    { [kind |-> "METHOD", modifier |-> "", type |-> "int", name |-> "read"],
      [kind |-> "METHOD", modifier |-> "", type |-> "int", name |-> "close"],
      [kind |-> "METHOD", modifier |-> "PRIVATE", type |-> "int", name |-> "read"],
      [kind |-> "METHOD", modifier |-> "", type |-> "Derived", name |-> "Con"] }

EndClassDecl == [kind |-> "END_CLASS", modifier |-> "", type |-> "", name |-> ""]

\* method_name.startswith("Con"), on the names of MethodDecls
startswith_Con(method_name) == method_name \in {"Con"}

\* The names of a list of methods, in order.
Names(ms) == [i \in 1..Len(ms) |-> ms[i].name]

\* EmptyConstructor(class_name, base_class_name, "Con", [], "", myclass=self)
EmptyConstructor(class_name) ==
    [kind |-> "EmptyConstructor", name |-> "Con", class_name |-> class_name,
     definition_class_name |-> class_name, myclass |-> class_name, return_type |-> "",
     modifier |-> ""]

\* "if not self.current_method": no method is being declared.
NoMethod ==
    [kind |-> "None", name |-> "", class_name |-> "", definition_class_name |-> "",
     myclass |-> "", return_type |-> "", modifier |-> ""]

\* ClassGenerator.__init__; cloned and inherited record how the generator
\* came to be: by clone() or not, and with which method names.
ClassGenerator(class_name, base_class_name) ==
    [class_name |-> class_name, base_class_name |-> base_class_name, methods |-> <<>>,
     constructor |-> EmptyConstructor(class_name), cloned |-> FALSE, inherited |-> <<>>]

\* Method.clone(new_class_name): the clone keeps name, definition class and
\* myclass and is given no modifier.
MethodClone(method, new_class_name) ==
    [method EXCEPT !.class_name = new_class_name, !.modifier = ""]

\* A clone() that drops the first method of the base.
cloneTail(cls, new_class_name) ==
    [class_name |-> new_class_name, base_class_name |-> cls.class_name,
     methods |-> [i \in 1..(Len(cls.methods) - 1) |->
                     MethodClone(cls.methods[i + 1], new_class_name)],
     constructor |-> MethodClone(cls.constructor, new_class_name),
     cloned |-> TRUE, inherited |-> Names(cls.methods)]

\* ClassGenerator.clone(new_class_name)
clone(cls, new_class_name) ==
    [class_name |-> new_class_name, base_class_name |-> cls.class_name,
     methods |-> [i \in 1..Len(cls.methods) |-> MethodClone(cls.methods[i], new_class_name)],
     constructor |-> MethodClone(cls.constructor, new_class_name),
     cloned |-> TRUE, inherited |-> Names(cls.methods)]

\* The lexer hands the declaration d to a handler: the first pass reads the
\* headers, the second pass reads the same headers again.
Read(d) ==
    /\ pass_no \in {1, 2}
    /\ IF pass_no = 1
       THEN /\ Len(header) < MaxDecls
            /\ header' = Append(header, d)
       ELSE /\ pos < Len(header)
            /\ d = header[pos + 1]
            /\ UNCHANGED header
    /\ pos' = pos + 1

\* HeaderParser.CLASS_START, called by the row "PUSH_STATE,CLASS_START" of
\* state INITIAL, which leads to state CLASS.
CLASS_START ==
    /\ parse_state = "INITIAL"
    /\ \E d \in ClassDecls :
          /\ Read(d)
          /\ LET class_name == d.name
                 base_class_name == d.type
                 cls == IF base_class_name \in DOMAIN classes
                        THEN clone(classes[base_class_name], class_name)
                        ELSE ClassGenerator(class_name, base_class_name)
             IN  /\ classes' = (class_name :> cls) @@ classes
                 /\ current_class' = class_name
          /\ decl' = d
    /\ parse_state' = "CLASS"
    /\ handler' = "CLASS_START"
    /\ before' = classes
    /\ UNCHANGED <<current_method, pass_no, pass1>>
    /\ UNCHANGED <<lexvars, emitvars, proxyvars, morevars>>

\* HeaderParser.METHOD_START, called by the row "PUSH_STATE,METHOD_START" of
\* state CLASS, which leads to state METHOD.
METHOD_START ==
    /\ parse_state = "CLASS"
    /\ \E d \in MethodDecls :
          /\ Read(d)
          /\ LET return_type == d.type
                 method_name == d.name
                 modifier == d.modifier
                 class_name == classes[current_class].class_name
             IN  current_method' =
                     IF modifier = "PRIVATE" THEN current_method
                     ELSE [kind |-> IF return_type = class_name /\ startswith_Con(method_name)
                                    THEN "ConstructorMethod" ELSE "Method",
                           name |-> method_name,
                           class_name |-> class_name,
                           definition_class_name |-> class_name,
                           myclass |-> current_class,
                           return_type |-> return_type,
                           modifier |-> modifier]
          /\ decl' = d
    /\ parse_state' = "METHOD"
    /\ handler' = "METHOD_START"
    /\ before' = classes
    /\ UNCHANGED <<classes, current_class, pass_no, pass1>>
    /\ UNCHANGED <<lexvars, emitvars, proxyvars, morevars>>

\* A search that never finds the method.
FindNothing(ms, name) == 0

\* "for i in range(len(self.current_class.methods))": the first position of
\* ms that holds a method called name, 0 when there is none.
Find(ms, name) ==
    IF \E i \in 1..Len(ms) : ms[i].name = name
    THEN SetMin({i \in 1..Len(ms) : ms[i].name = name})
    ELSE 0

\* HeaderParser.METHOD_END, called by the row "POP_STATE,METHOD_END" of state
\* METHOD, whose POP_STATE leads back to state CLASS.
METHOD_END ==
    /\ parse_state = "METHOD"
    /\ LET i == Find(classes[current_class].methods, current_method.name)
       IN  classes' =
               IF current_method.kind = "None" THEN classes
               ELSE IF current_method.kind = "ConstructorMethod"
               THEN [classes EXCEPT ![current_class].constructor = current_method]
               ELSE IF i # 0
               THEN [classes EXCEPT ![current_class].methods[i] = current_method]
               ELSE [classes EXCEPT ![current_class].methods = Append(@, current_method)]
    /\ current_method' = NoMethod
    /\ parse_state' = "CLASS"
    /\ handler' = "METHOD_END"
    /\ before' = classes
    /\ UNCHANGED <<current_class, pass_no, header, pos, decl, pass1>>
    /\ UNCHANGED <<lexvars, emitvars, proxyvars, morevars>>

\* HeaderParser.END_CLASS, called by the row "END_CLASS,POP_STATE" of state
\* CLASS, whose POP_STATE leads back to state INITIAL.
END_CLASS ==
    /\ parse_state = "CLASS"
    /\ Read(EndClassDecl)
    /\ current_class' = None
    /\ parse_state' = "INITIAL"
    /\ handler' = "END_CLASS"
    /\ before' = classes
    /\ UNCHANGED <<classes, current_method, pass_no, decl, pass1>>
    /\ UNCHANGED <<lexvars, emitvars, proxyvars, morevars>>

\* HeaderParser.parse_filenames: a loop over the header files has come to
\* its end; the second loop reads the same files again.
NextPass ==
    /\ pass_no \in {1, 2}
    /\ parse_state = "INITIAL"
    /\ pos = Len(header)
    /\ pass_no' = pass_no + 1
    /\ pos' = 0
    /\ pass1' = IF pass_no = 1 THEN classes ELSE pass1
    /\ handler' = "parse_filenames"
    /\ before' = classes
    /\ UNCHANGED <<classes, current_class, current_method, parse_state, header, decl>>
    /\ UNCHANGED <<lexvars, emitvars, proxyvars, morevars>>

\* HeaderParser.__init__ has parsed "CLASS(Object, Obj) END_CLASS".
ParseInit ==
    /\ classes = ("Object" :> ClassGenerator("Object", "Obj"))
    /\ current_class = None
    /\ current_method = NoMethod
    /\ parse_state = "INITIAL"
    /\ pass_no = 1
    /\ header = <<>>
    /\ pos = 0
    /\ handler = "__init__"
    /\ decl = EndClassDecl
    /\ before = ("Object" :> ClassGenerator("Object", "Obj"))
    /\ pass1 = ("Object" :> ClassGenerator("Object", "Obj"))

ParseNext == CLASS_START \/ METHOD_START \/ METHOD_END \/ END_CLASS \/ NextPass

(***************************************************************************)
(* The type initialisation Module.write emits into the module's init       *)
(* function.  The classes are numbered by their place in classes.keys().   *)
(***************************************************************************)
NumClasses == 3

Classes == 1..NumClasses

\* self.classes.get(cls.base_class_name) finds no class
NoBase == 0

\* "if done and class_name in done" is never true.
NeverDone(class_name, d) == FALSE

\* "if done and class_name in done": an empty set is falsy.
AlreadyDone(class_name, d) == d # {} /\ class_name \in d

\* Module.write: "for class_name in self.classes.keys()" calls
\* initialise_class for the next key.
WriteLoop ==
    /\ frames = <<>>
    /\ key_ix < NumClasses
    /\ key_ix' = key_ix + 1
    /\ frames' = <<[class_name |-> key_ix + 1, pc |-> "enter"]>>
    /\ UNCHANGED <<base_of, active, done, out>>
    /\ UNCHANGED <<lexvars, parsevars, proxyvars, morevars>>

\* Module.initialise_class from its entry to its return or to its recursive
\* call for the base class.
InitialiseClass ==
    /\ frames # <<>>
    /\ frames[Len(frames)].pc = "enter"
    /\ LET class_name == frames[Len(frames)].class_name
           caller == SubSeq(frames, 1, Len(frames) - 1)
           base_class == base_of[class_name]
       IN  IF AlreadyDone(class_name, done)
           THEN /\ frames' = caller
                /\ UNCHANGED <<done, out>>
           ELSE /\ done' = done \cup {class_name}
                /\ IF ~active[class_name]
                   THEN /\ frames' = caller
                        /\ UNCHANGED out
                   ELSE IF base_class # NoBase /\ active[base_class]
                   THEN /\ frames' = caller \o <<[class_name |-> class_name, pc |-> "base"],
                                                 [class_name |-> base_class, pc |-> "enter"]>>
                        /\ UNCHANGED out
                   ELSE /\ frames' = caller
                        /\ out' = Append(out, <<"PyType_Ready", class_name>>)
    /\ UNCHANGED <<base_of, active, key_ix>>
    /\ UNCHANGED <<lexvars, parsevars, proxyvars, morevars>>

\* Module.initialise_class after the recursive call for the base class has
\* returned: the tp_base assignment, then the class's own block.
InitialiseDerived ==
    /\ frames # <<>>
    /\ frames[Len(frames)].pc = "base"
    /\ LET class_name == frames[Len(frames)].class_name
       IN  out' = out \o << <<"tp_base", class_name>>, <<"PyType_Ready", class_name>> >>
    /\ frames' = SubSeq(frames, 1, Len(frames) - 1)
    /\ UNCHANGED <<base_of, active, done, key_ix>>
    /\ UNCHANGED <<lexvars, parsevars, proxyvars, morevars>>

\* Module.write reaches its loop with any class table.
EmitInit ==
    /\ base_of \in [Classes -> Classes \cup {NoBase}]
    /\ active \in [Classes -> BOOLEAN]
    /\ done = {}
    /\ out = <<>>
    /\ frames = <<>>
    /\ key_ix = 0

EmitNext == WriteLoop \/ InitialiseClass \/ InitialiseDerived

(***************************************************************************)
(* Proxies: ClassGenerator.prototypes and code write the trampolines and   *)
(* initialize_proxies of one wrapped class; the generated code then runs   *)
(* when a wrapper of that class is constructed and its native object is    *)
(* called.                                                                 *)
(***************************************************************************)
MaxManaged == 2

WrappedClass == "Derived"

MethodNames == {"read", "close", "__str__"}

\* The order the methods of the wrapped class were declared in.
MethodOrder == <<"read", "close", "__str__">>

MethodModifiers == {"", "ABSTRACT", "FOREIGN"}

\* method.name.startswith("_"), on MethodNames
startswith_underscore(name) == name \in {"__str__"}

\* What a managed override may return, and what the native implementations
\* return.
PyResults == {7, 263, -1}
NativeResults == {1}

\* Integer8Unsigned.from_python_object: PyLong_AsUnsignedLongMask, stored in
\* a uint8_t.
from_python_object(v) == v % 256

\* The methods lists a wrapped class may have: any of MethodNames, in
\* declaration order, each cloned from Base or declared in the class.
MethodLists ==
    LET Pick3(S, myclass, mods) ==
            LET names == SelectSeq(MethodOrder, LAMBDA n : n \in S)
            IN  [i \in 1..Len(names) |->
                    [kind |-> "Method", name |-> names[i], class_name |-> WrappedClass,
                     definition_class_name |-> myclass, myclass |-> myclass,
                     return_type |-> "uint8_t", modifier |-> mods[names[i]]]]
    IN  {Pick3(S, myclass, mods) :
            S \in SUBSET MethodNames, myclass \in {"Base", WrappedClass},
            mods \in [MethodNames -> MethodModifiers]}

\* ProxiedMethod.get_name()
get_name(method) == <<"Proxied", method.myclass, method.name>>

\* ClassGenerator.prototypes(): every method except close is given the
\* attribute proxied.
prototypes ==
    /\ phase = "parsed"
    /\ proxied' = {i \in 1..Len(methods) : methods[i].name # "close"}
    /\ phase' = "prototyped"
    /\ UNCHANGED <<methods, constructor, function_definitions, patches, mro, slots,
                   extension, call>>
    /\ UNCHANGED <<lexvars, parsevars, emitvars, morevars>>

\* An initialise_proxies that treats close like any other method.
PatchedMethodsAll(ms) == {i \in 1..Len(ms) : ~startswith_underscore(ms[i].name)}

\* ConstructorMethod.initialise_proxies: the methods it writes a patch for.
PatchedMethods(ms) ==
    {i \in 1..Len(ms) : ~startswith_underscore(ms[i].name) /\ ms[i].name # "close"}

\* The statements ConstructorMethod.initialise_proxies writes, one per
\* patched method, in the order of the methods.
initialise_proxies(ms) ==
    LET ixs == PatchedMethods(ms)
        nth(k) == CHOOSE i \in ixs : Cardinality({j \in ixs : j < i}) = k - 1
    IN  [k \in 1..Cardinality(ixs) |->
            [name |-> ms[nth(k)].name,
             type |-> ms[nth(k)].class_name,
             definition_class_name |-> ms[nth(k)].definition_class_name,
             proxied_name |-> get_name(ms[nth(k)])]]

\* ClassGenerator.code(): the constructor's write_definition, which for a
\* ConstructorMethod begins with initialise_proxies, then the definition of
\* every method and of the trampoline of every method that has one.
code ==
    /\ phase = "prototyped"
    /\ patches' = IF constructor = "ConstructorMethod"
                  THEN initialise_proxies(methods) ELSE <<>>
    /\ function_definitions' =
          function_definitions
              \cup (IF constructor = "ConstructorMethod"
                    THEN {<<"initialize_proxies", WrappedClass, "">>} ELSE {})
              \cup {get_name(methods[i]) : i \in proxied}
    /\ phase' = "coded"
    /\ UNCHANGED <<methods, constructor, proxied, mro, slots, extension, call>>
    /\ UNCHANGED <<lexvars, parsevars, emitvars, morevars>>

\* A type object of the managed runtime: wraps names the wrapped class of a
\* generated wrapper type and is "" for a class written in the managed
\* language; dict holds the method names the type itself defines.
TypeObject(wraps, dict) == [wraps |-> wraps, dict |-> dict]

\* The managed classes a wrapper may be constructed through, most derived
\* first: what each of them defines.
ManagedTypes == UNION {[1..n -> SUBSET MethodNames] : n \in 0..MaxManaged}

\* tp_mro of the type of self: the managed classes, then the wrapper type
\* of the wrapped class, then the wrapper type of its base.
Mro(managed, ms) ==
    [i \in 1..Len(managed) |-> TypeObject("", managed[i])]
        \o <<TypeObject(WrappedClass, {ms[i].name : i \in 1..Len(ms)}),
             TypeObject("Base", {ms[i].name : i \in {j \in 1..Len(ms) : ms[j].myclass = "Base"}})>>

\* A check_method_override that walks the whole resolution order.
check_method_override_all(self_mro, type, method) ==
    \E i \in 1..Len(self_mro) : method \in self_mro[i].dict

\* check_method_override(self, type, method): the loop over tp_mro stops at
\* type and finds the method when a type before it has it in its __dict__.
check_method_override(self_mro, type, method) ==
    \E i \in 1..Len(self_mro) :
        /\ method \in self_mro[i].dict
        /\ \A j \in 1..i : self_mro[j].wraps # type

\* The native implementation a slot holds after alloc.
NativeImpl(name) == <<"native", "", name>>

NoCall ==
    [name |-> "", via |-> "", entered |-> FALSE, receiver |-> 0, raised |-> FALSE,
     py_result |-> 0, ret |-> 0]

\* The generated constructor py<class>_init: it allocates the native object
\* and runs py<class>_initialize_proxies on it, which sets the extension and
\* executes the patch statements.
Construct ==
    /\ phase = "coded"
    /\ constructor = "ConstructorMethod"
    /\ \E managed \in ManagedTypes :
          LET self_mro == Mro(managed, methods)
              patch(name) == {k \in 1..Len(patches) :
                                 /\ patches[k].name = name
                                 /\ check_method_override(self_mro, patches[k].type, name)}
          IN  /\ mro' = self_mro
              /\ slots' = [name \in {methods[i].name : i \in 1..Len(methods)} |->
                              IF patch(name) # {}
                              THEN patches[SetMax(patch(name))].proxied_name
                              ELSE NativeImpl(name)]
    /\ extension' = TRUE
    /\ phase' = "constructed"
    /\ UNCHANGED <<methods, constructor, proxied, function_definitions, patches, call>>
    /\ UNCHANGED <<lexvars, parsevars, emitvars, morevars>>

\* Native code calls a method of the native object through its slot.  A
\* slot that holds a trampoline (ProxiedMethod._write_definition) calls the
\* method of that name on the extension and converts what it returns, or
\* returns the error value when the call raised.
NativeCall ==
    /\ phase = "constructed"
    /\ \E name \in DOMAIN slots, v \in PyResults, raised \in BOOLEAN, native \in NativeResults :
          LET receiver == SetMin({i \in 1..Len(mro) : name \in mro[i].dict})
          IN  call' =
                  IF slots[name] = NativeImpl(name)
                  THEN [name |-> name, via |-> "native", entered |-> FALSE, receiver |-> 0,
                        raised |-> FALSE, py_result |-> 0, ret |-> native]
                  ELSE IF ~extension \/ raised
                  THEN [name |-> name, via |-> "trampoline", entered |-> extension,
                        receiver |-> IF extension THEN receiver ELSE 0,
                        raised |-> TRUE, py_result |-> 0, ret |-> 0]
                  ELSE [name |-> name, via |-> "trampoline", entered |-> TRUE,
                        receiver |-> receiver, raised |-> FALSE, py_result |-> v,
                        ret |-> from_python_object(v)]
    /\ UNCHANGED <<methods, constructor, proxied, function_definitions, patches, phase, mro,
                   slots, extension>>
    /\ UNCHANGED <<lexvars, parsevars, emitvars, morevars>>

\* The class table holds one wrapped class, parsed.
ProxyInit ==
    /\ methods \in MethodLists
    /\ constructor \in {"ConstructorMethod", "EmptyConstructor"}
    /\ proxied = {}
    /\ function_definitions = {}
    /\ patches = <<>>
    /\ phase = "parsed"
    /\ mro = <<>>
    /\ slots = <<>>
    /\ extension = FALSE
    /\ call = NoCall

ProxyNext == prototypes \/ code \/ Construct \/ NativeCall

(***************************************************************************)
(* The trampolines ProxiedMethod._write_definition writes, run statement   *)
(* by statement.  A statement is [op, type, goto]: goto names the label    *)
(* the statement jumps to when the call it makes fails, "" when it has no  *)
(* such branch.  Statements that only declare variables or change a        *)
(* reference count are left out.                                           *)
(***************************************************************************)
MaxArgs == 2

\* The classes of Type an argument of a proxied method is of.
ArgTypes == {"Integer", "String", "Char_and_Length_OUT", "Wrapper"}

\* The classes of Type a proxied method returns.
ReturnTypes == {"Integer", "String", "Wrapper", "Void", "TDB_DATA"}

ProxiedMethods ==
    [args : UNION {[1..n -> ArgTypes] : n \in 0..MaxArgs}, return_type : ReturnTypes]

Stmt(o, type, target) == [op |-> o, type |-> type, goto |-> target]

\* type.to_python_object(result="py_...", sense="proxied", BORROWED=True)
to_python_object(type) ==
    CASE type = "String" -> <<Stmt("to_python_object", type, "on_error")>>
      [] type = "Integer" -> <<Stmt("to_python_object", type, "")>>
      [] type = "Char_and_Length_OUT" -> <<Stmt("to_python_object", type, "")>>
      [] type = "Wrapper" -> <<Stmt("to_python_object", type, "")>>

\* type.python_proxy_post_call()
python_proxy_post_call(type) ==
    IF type = "Char_and_Length_OUT"
    THEN <<Stmt("python_proxy_post_call", type, "on_error")>>
    ELSE <<>>

\* return_type.from_python_object("Py_result", name, self, context="self")
write_from_python_object(type) ==
    CASE type \in {"String", "Wrapper", "TDB_DATA"} ->
            <<Stmt("from_python_object", type, "on_error")>>
      [] type = "Integer" -> <<Stmt("from_python_object", type, "")>>
      [] type = "Void" -> <<>>

\* "for arg in self.args: out.write(arg.to_python_object(...))"
RECURSIVE ArgsToPython(_, _)
ArgsToPython(args, k) ==
    IF k > Len(args) THEN <<>>
    ELSE to_python_object(args[k]) \o ArgsToPython(args, k + 1)

\* "for arg in self.args: out.write(arg.python_proxy_post_call())"
RECURSIVE ArgsPostCall(_, _)
ArgsPostCall(args, k) ==
    IF k > Len(args) THEN <<>>
    ELSE python_proxy_post_call(args[k]) \o ArgsPostCall(args, k + 1)

\* An error exit that returns with the lock held.
on_error_leak(error_set) ==
    IF error_set
    THEN <<Stmt("label", "on_error", ""), Stmt("return", "error_value", "")>>
    ELSE <<>>

\* "if self.error_set:": the statements from the label on_error on.
on_error(error_set) ==
    IF error_set
    THEN <<Stmt("label", "on_error", ""), Stmt("PyGILState_Release", "", ""),
           Stmt("return", "error_value", "")>>
    ELSE <<>>

\* ProxiedMethod._write_definition: error_set is set before the test of
\* PyErr_Occurred() is written.
_write_definition(method) ==
    <<Stmt("PyGILState_Ensure", "", "")>>
    \o ArgsToPython(method.args, 1)
    \o <<Stmt("extension", "", "on_error"),
         Stmt("PyObject_CallMethodObjArgs", "", ""),
         Stmt("PyErr_Occurred", "", "on_error")>>
    \o ArgsPostCall(method.args, 1)
    \o write_from_python_object(method.return_type)
    \o <<Stmt("PyGILState_Release", "", ""), Stmt("return", "func_return", "")>>
    \o on_error(TRUE)

\* The statement after the label l.
Label(stmts, l) == 1 + CHOOSE i \in 1..Len(stmts) : stmts[i].op = "label" /\ stmts[i].type = l

\* The statement at pc is an o.
At(o) == pc \in 1..Len(definition) /\ definition[pc].op = o

\* The statement at pc succeeds, or fails and takes its branch.
Branch(failed, path) ==
    /\ pc' = IF ~failed THEN pc + 1
             ELSE IF definition[pc].goto = "return" THEN 0
             ELSE Label(definition, definition[pc].goto)
    /\ exit_path' = IF failed THEN path ELSE exit_path

\* Native code calls the slot the trampoline was stored in.
CallTrampoline ==
    /\ pc = 0
    /\ pc' = 1
    /\ ensured' = 0
    /\ released' = 0
    /\ exit_path' = ""
    /\ py_err' = FALSE
    /\ self_extension' \in BOOLEAN
    /\ UNCHANGED <<proxied_method, definition, gil>>
    /\ UNCHANGED tramprest

PyGILState_Ensure ==
    /\ At("PyGILState_Ensure")
    /\ gil' = gil + 1
    /\ ensured' = ensured + 1
    /\ pc' = pc + 1
    /\ UNCHANGED <<proxied_method, definition, released, self_extension, py_err, exit_path>>
    /\ UNCHANGED tramprest

PyGILState_Release ==
    /\ At("PyGILState_Release")
    /\ gil' = gil - 1
    /\ released' = released + 1
    /\ pc' = pc + 1
    /\ UNCHANGED <<proxied_method, definition, ensured, self_extension, py_err, exit_path>>
    /\ UNCHANGED tramprest

\* An argument is converted to a Python object.
ArgToPython ==
    /\ At("to_python_object")
    /\ \E failed \in BOOLEAN :
          /\ failed => definition[pc].goto # ""
          /\ Branch(failed, "argument conversion")
    /\ UNCHANGED <<proxied_method, definition, gil, ensured, released, self_extension, py_err>>
    /\ UNCHANGED tramprest

\* "if(((Object) self)->extension == NULL)"
CheckExtension ==
    /\ At("extension")
    /\ Branch(~self_extension, "no extension")
    /\ UNCHANGED <<proxied_method, definition, gil, ensured, released, self_extension, py_err>>
    /\ UNCHANGED tramprest

\* The method of the Python object runs, and may raise.
PyObject_CallMethodObjArgs ==
    /\ At("PyObject_CallMethodObjArgs")
    /\ py_err' \in BOOLEAN
    /\ pc' = pc + 1
    /\ UNCHANGED <<proxied_method, definition, gil, ensured, released, self_extension,
                   exit_path>>
    /\ UNCHANGED tramprest

\* "if(PyErr_Occurred())"
PyErr_Occurred ==
    /\ At("PyErr_Occurred")
    /\ Branch(py_err, "exception")
    /\ UNCHANGED <<proxied_method, definition, gil, ensured, released, self_extension, py_err>>
    /\ UNCHANGED tramprest

\* What the method returned is converted: into the buffer of an OUT
\* argument, then into the native result.
ResultFromPython ==
    /\ At("python_proxy_post_call") \/ At("from_python_object")
    /\ \E failed \in BOOLEAN :
          /\ failed => definition[pc].goto # ""
          /\ Branch(failed, "result conversion")
    /\ UNCHANGED <<proxied_method, definition, gil, ensured, released, self_extension, py_err>>
    /\ UNCHANGED tramprest

Return ==
    /\ At("return")
    /\ pc' = 0
    /\ exit_path' = IF exit_path = "" THEN "return" ELSE exit_path
    /\ UNCHANGED <<proxied_method, definition, gil, ensured, released, self_extension, py_err>>
    /\ UNCHANGED tramprest

\* The definition of one proxied method has been written.
TrampInit ==
    /\ proxied_method \in ProxiedMethods
    /\ definition = _write_definition(proxied_method)
    /\ pc = 0
    /\ gil = 0
    /\ ensured = 0
    /\ released = 0
    /\ self_extension = FALSE
    /\ py_err = FALSE
    /\ exit_path = ""

TrampNext ==
    \/ CallTrampoline \/ PyGILState_Ensure \/ PyGILState_Release \/ ArgToPython
    \/ CheckExtension \/ PyObject_CallMethodObjArgs \/ PyErr_Occurred \/ ResultFromPython
    \/ Return

(***************************************************************************)
(* The wrapper functions Method.write_definition,                          *)
(* SelfIteratorMethod.write_definition and                                 *)
(* ConstructorMethod.write_definition write, run statement by statement    *)
(* like the trampolines.  A statement whose goto is "return" returns on    *)
(* the spot when it fails.  The statements that build the result are left  *)
(* out.                                                                    *)
(***************************************************************************)
\* The arguments of a wrapped method: the class of Type and the C type.
WrapperArgs ==
    { [class |-> "Integer", type |-> "int"],
      [class |-> "String", type |-> "char *"],
      [class |-> "Wrapper", type |-> "Base"],
      [class |-> "PointerWrapper", type |-> "Derived"] }

\* The classes of Type whose assign() differ.
WrapperReturns == {"Integer", "Void", "Wrapper", "StructWrapper"}

ArgLists == UNION {[1..n -> WrapperArgs] : n \in 0..MaxArgs}

Methods ==
    [class : {"Method", "IteratorMethod"}, args : ArgLists, return_type : WrapperReturns]
    \cup [class : {"ConstructorMethod"}, args : ArgLists, return_type : {"Wrapper"}]
    \cup [class : {"SelfIteratorMethod"}, args : {<<>>}, return_type : WrapperReturns]

\* Wrapper.pre_call and PointerWrapper.pre_call; Type.pre_call writes nothing.
pre_call(arg) ==
    IF arg.class \in {"Wrapper", "PointerWrapper"}
    THEN <<Stmt(arg.class, arg.type, "on_error")>>
    ELSE <<>>

RECURSIVE ArgsPreCall(_, _)
ArgsPreCall(args, k) ==
    IF k > Len(args) THEN <<>> ELSE pre_call(args[k]) \o ArgsPreCall(args, k + 1)

\* return_type.assign(call, self, borrowed=False): Type.assign, Void.assign,
\* Wrapper.assign and StructWrapper.assign.
assign(return_type, null_ok) ==
    CASE return_type \in {"Integer", "Void"} ->
            <<Stmt("Py_BEGIN_ALLOW_THREADS", "", ""), Stmt("call", "", ""),
              Stmt("Py_END_ALLOW_THREADS", "", "")>>
      [] return_type = "Wrapper" ->
            <<Stmt("Py_BEGIN_ALLOW_THREADS", "", ""), Stmt("call", "", ""),
              Stmt("Py_END_ALLOW_THREADS", "", ""), Stmt("check_error", "", "on_error")>>
            \o (IF null_ok THEN <<Stmt("returned_object", "", "on_error")>> ELSE <<>>)
            \o <<Stmt("new_class_wrapper", "", "on_error")>>
      [] return_type = "StructWrapper" ->
            <<Stmt("call", "", "")>>
            \o (IF null_ok THEN <<Stmt("base", "", "return")>> ELSE <<>>)

\* Method.write_definition, which IteratorMethod inherits;
\* SelfIteratorMethod.write_definition; ConstructorMethod.write_definition.
write_definition(m) ==
    CASE m.class \in {"Method", "IteratorMethod"} ->
            (IF m.class = "Method"
             THEN <<Stmt("PyArg_ParseTupleAndKeywords", "", "on_error")>> ELSE <<>>)
            \o <<Stmt("base", "", "return")>>
            \o ArgsPreCall(m.args, 1)
            \o <<Stmt("implemented", "", "on_error")>>
            \o assign(m.return_type, m.class = "IteratorMethod")
            \o <<Stmt("check_error", "", "on_error"), Stmt("return", "returned_result", ""),
                 Stmt("label", "on_error", ""), Stmt("return", "NULL", "")>>
      [] m.class = "SelfIteratorMethod" ->
            <<Stmt("call", "", ""), Stmt("return", "PyObject_SelfIter", "")>>
      [] m.class = "ConstructorMethod" ->
            <<Stmt("PyArg_ParseTupleAndKeywords", "", "on_error")>>
            \o ArgsPreCall(m.args, 1)
            \o <<Stmt("Py_BEGIN_ALLOW_THREADS", "", ""), Stmt("call", "", ""),
                 Stmt("Py_END_ALLOW_THREADS", "", ""), Stmt("check_error", "", "on_error"),
                 Stmt("result_constructor", "", "on_error"), Stmt("return", "0", ""),
                 Stmt("label", "on_error", ""), Stmt("return", "-1", "")>>

\* The Python types: tp_base of each, "NULL" above object.
tp_base ==
    [t \in {"object", "NoneType", "int", "Base", "Derived", "Managed", "Other"} |->
        CASE t = "object" -> "NULL"
          [] t = "Derived" -> "Base"
          [] t = "Managed" -> "Derived"
          [] OTHER -> "object"]

\* The objects a caller passes for an argument: their type, and whether
\* the base of a wrapper is set.
PyObjects == [type : DOMAIN tp_base \ {"object"}, base : BOOLEAN]

\* type_check(obj, type): "for(tmp = Py_TYPE(obj); tmp && tmp !=
\* &PyBaseObject_Type; tmp = tmp->tp_base) if(tmp == type) return 1;"
RECURSIVE type_check_from(_, _)
type_check_from(tmp, type) ==
    IF tmp = "NULL" \/ tmp = "object" THEN FALSE
    ELSE IF tmp = type THEN TRUE
    ELSE type_check_from(tp_base[tmp], type)

\* A check every object passes.
type_check_any(obj, type) == TRUE

type_check(obj, type) == type_check_from(obj.type, type)

\* The types a type derives from, itself included: the tp_base that
\* ClassGenerator.initialise sets, followed to the end.
RECURSIVE Ancestors(_)
Ancestors(t) == IF t = "NULL" THEN {} ELSE {t} \cup Ancestors(tp_base[t])

NoException == [exception |-> "", text |-> "", type |-> ""]

\* A wrapper function is called from Python.
CallWrapper ==
    /\ pc = 0
    /\ pc' = 1
    /\ exit_path' = ""
    /\ allow_threads' = FALSE
    /\ native_calls' = <<>>
    /\ mistyped' = ""
    /\ py_exception' = NoException
    /\ UNCHANGED <<wrapped_method, definition>>
    /\ UNCHANGED <<proxied_method, gil, ensured, released, self_extension, py_err>>
    /\ UNCHANGED wraprest

\* A statement that tests what a call left: PyArg_ParseTupleAndKeywords,
\* self->base, the method's slot, check_error(), the returned object.
Check ==
    /\ \E o \in {"PyArg_ParseTupleAndKeywords", "base", "implemented", "check_error",
                 "returned_object", "new_class_wrapper", "result_constructor"} : At(o)
    /\ \E failed \in BOOLEAN : Branch(failed, definition[pc].op)
    /\ UNCHANGED <<wrapped_method, definition, allow_threads, native_calls, mistyped, py_exception>>
    /\ UNCHANGED <<proxied_method, gil, ensured, released, self_extension, py_err>>
    /\ UNCHANGED wraprest

\* Wrapper.pre_call and PointerWrapper.pre_call for the object passed.
PreCall ==
    /\ At("Wrapper") \/ At("PointerWrapper")
    /\ \E obj \in PyObjects :
          LET expected == definition[pc].type
              none == obj.type = "NoneType"
              wrong == ~none /\ ~type_check(obj, expected)
              gone == ~none /\ ~wrong /\ definition[pc].op = "Wrapper" /\ ~obj.base
          IN  /\ Branch(wrong \/ gone, "pre_call")
              /\ mistyped' = IF ~none /\ expected \notin Ancestors(obj.type)
                             THEN expected ELSE mistyped
              /\ py_exception' =
                    IF wrong
                    THEN [exception |-> "PyExc_RuntimeError",
                          text |-> "must be derived from type", type |-> expected]
                    ELSE IF gone
                    THEN [exception |-> "PyExc_RuntimeError",
                          text |-> "instance is no longer valid", type |-> expected]
                    ELSE py_exception
    /\ UNCHANGED <<wrapped_method, definition, allow_threads, native_calls>>
    /\ UNCHANGED <<proxied_method, gil, ensured, released, self_extension, py_err>>
    /\ UNCHANGED wraprest

Py_BEGIN_ALLOW_THREADS ==
    /\ At("Py_BEGIN_ALLOW_THREADS")
    /\ allow_threads' = TRUE
    /\ pc' = pc + 1
    /\ UNCHANGED <<wrapped_method, definition, exit_path, native_calls, mistyped, py_exception>>
    /\ UNCHANGED <<proxied_method, gil, ensured, released, self_extension, py_err>>
    /\ UNCHANGED wraprest

\* The wrapped function of the native library runs.
CallNative ==
    /\ At("call")
    /\ native_calls' = Append(native_calls, allow_threads)
    /\ pc' = pc + 1
    /\ UNCHANGED <<wrapped_method, definition, exit_path, allow_threads, mistyped, py_exception>>
    /\ UNCHANGED <<proxied_method, gil, ensured, released, self_extension, py_err>>
    /\ UNCHANGED wraprest

Py_END_ALLOW_THREADS ==
    /\ At("Py_END_ALLOW_THREADS")
    /\ allow_threads' = FALSE
    /\ pc' = pc + 1
    /\ UNCHANGED <<wrapped_method, definition, exit_path, native_calls, mistyped, py_exception>>
    /\ UNCHANGED <<proxied_method, gil, ensured, released, self_extension, py_err>>
    /\ UNCHANGED wraprest

\* The definition of one method has been written.
WrapInit ==
    /\ wrapped_method \in Methods
    /\ definition = write_definition(wrapped_method)
    /\ pc = 0
    /\ exit_path = ""
    /\ allow_threads = FALSE
    /\ native_calls = <<>>
    /\ mistyped = ""
    /\ py_exception = NoException
    /\ proxied_method = [args |-> <<>>, return_type |-> "Void"]
    /\ gil = 0
    /\ ensured = 0
    /\ released = 0
    /\ self_extension = FALSE
    /\ py_err = FALSE

WrapNext ==
    \/ CallWrapper \/ Check \/ PreCall \/ Py_BEGIN_ALLOW_THREADS \/ CallNative
    \/ Py_END_ALLOW_THREADS \/ Return

(***************************************************************************)
(* HeaderParser at work (class_parser.py): parse_fd feeds a header to the  *)
(* lexer and the handlers of the rules fill the module.  Text is a         *)
(* sequence of characters; the empty sequence stands for a name that is    *)
(* None.  Of the handlers, those of #define, CLASS, METHOD and enum are    *)
(* modelled; the headers below hold nothing else.                          *)
(***************************************************************************)
MaxHeaders == 2

\* The headers handed to parse_fd.
Headers ==
    [method_comma |-> <<"C", "L", "A", "S", "S", "(", "F", "o", "o", ",", " ", "O",
                        "b", "j", ")", "\n", "i", "n", "t", " ", "M", "E", "T",
                        "H", "O", "D", "(", "F", "o", "o", ",", " ", "B", "a", "r",
                        ",", " ", "I", "N", " ", "i", "n", "t", ",", " ", "x", ")",
                        ";", "\n", "E", "N", "D", "_", "C", "L", "A", "S", "S",
                        "\n">>,
     method |-> <<"C", "L", "A", "S", "S", "(", "F", "o", "o", ",", " ", "O", "b",
                  "j", ")", "\n", "i", "n", "t", " ", "M", "E", "T", "H", "O", "D",
                  "(", "F", "o", "o", ",", " ", "B", "a", "r", ",", " ", "i", "n",
                  "t", " ", "x", ")", ";", "\n", "E", "N", "D", "_", "C", "L", "A",
                  "S", "S", "\n">>,
     defines |-> <<"#", "d", "e", "f", "i", "n", "e", " ", "M", "A", "X", "_", "S",
                   "I", "Z", "E", " ", "1", "0", "0", "\n", "#", "d", "e", "f",
                   "i", "n", "e", " ", "G", "R", "E", "E", "T", "I", "N", "G", " ",
                   "\"", "h", "i", "\"", "\n", "#", "d", "e", "f", "i", "n", "e",
                   " ", "o", "k", " ", "1", "\n">>,
     enum_line |-> <<"e", "n", "u", "m", " ", "C", "o", "l", "o", "r", " ", "{",
                     " ", "R", "E", "D", " ", "=", " ", "0", ",", " ", "G", "R",
                     "E", "E", "N", " ", "=", " ", "1", ",", " ", "B", "L", "U",
                     "E", " ", "=", " ", "2", " ", "}", ";", "\n">>,
     guarded_enum |-> <<"#", "d", "e", "f", "i", "n", "e", " ", "T", "S", "K", "3",
                        "_", "H", "_", " ", "1", "\n", "#", "d", "e", "f", "i",
                        "n", "e", " ", "_", "P", "A", "D", " ", "4", "\n", "e",
                        "n", "u", "m", " ", "m", "o", "d", "e", " ", "{", "\n",
                        "r", "w", " ", "=", " ", "1", ",", "\n", "_", "X", " ",
                        "=", " ", "2", "\n", "}", ";", "\n">>]

\* The end of each element of the sequence rs in the match that
\* regex.match() settles on: what PickCat goes through.
RECURSIVE PickEnds(_, _, _, _, _, _)
PickEnds(rs, k, s, i0, cur, T) ==
    IF k > Len(rs) THEN <<>>
    ELSE LET e == Pick(rs[k], s, cur, BwdSet(rs, k + 1, s, i0, T))
         IN  <<e>> \o PickEnds(rs, k + 1, s, i0, e, T)

\* The elements of a rule's pattern that each of its groups spans, first
\* and last, for the rules whose handler reads a group.
GroupElems ==
    ("DEFINE,POP_STATE" :> <<<<1, 1>>>>) @@
    ("PUSH_STATE,CLASS_START" :> <<<<1, 1>>, <<4, 4>>, <<8, 8>>>>) @@
    ("PUSH_STATE,METHOD_START" :> <<<<2, 2>>, <<3, 4>>, <<4, 4>>, <<6, 6>>, <<9, 9>>>>) @@
    ("METHOD_ARG" :> <<<<2, 5>>, <<6, 6>>>>) @@
    ("PUSH_STATE,ENUM_START" :> <<<<3, 3>>>>) @@
    ("ENUM_VALUE" :> <<<<1, 1>>>>) @@
    ("POP_STATE,TYPEDEFED_ENUM_END" :> <<<<3, 3>>>>)

\* m.group(n) of the match m of row k on the text s.
group(k, n, s) ==
    IF n = 0 THEN SubSeq(s, 1, MatchEnd(tokens[k].re, s))
    ELSE LET rs == tokens[k].re[2]
             ends == <<0>> \o PickEnds(rs, 1, s, 0, 0, 0..Len(s))
             span == GroupElems[tokens[k].token][n]
         IN  SubSeq(s, ends[span[1]] + 1, ends[span[2] + 1])

\* A strip() that leaves the text as it is.
strip_nothing(cs) == cs

\* str.strip()
strip(cs) ==
    LET ix == {i \in 1..Len(cs) : cs[i] \notin Space}
    IN  IF ix = {} THEN <<>> ELSE SubSeq(cs, SetMin(ix), SetMax(ix))

ascii_lowercase == <<"a", "b", "c", "d", "e", "f", "g", "h", "i", "j", "k", "l",
                     "m", "n", "o", "p", "q", "r", "s", "t", "u", "v", "w", "x",
                     "y", "z">>
ascii_uppercase == <<"A", "B", "C", "D", "E", "F", "G", "H", "I", "J", "K", "L",
                     "M", "N", "O", "P", "Q", "R", "S", "T", "U", "V", "W", "X",
                     "Y", "Z">>

\* str.upper()
upper(cs) ==
    [i \in 1..Len(cs) |->
        IF cs[i] \in Lower
        THEN ascii_uppercase[CHOOSE j \in 1..26 : ascii_lowercase[j] = cs[i]]
        ELSE cs[i]]

\* line.split("/*")[0]
split_comment(line) ==
    LET ix == {i \in 1..(Len(line) - 1) : line[i] = "/" /\ line[i + 1] = "*"}
    IN  IF ix = {} THEN line ELSE SubSeq(line, 1, SetMin(ix) - 1)

CONSTANTS_BLACKLIST == {<<"T", "S", "K", "3", "_", "H", "_">>}

\* A test every name passes.
exported_any(name) == TRUE

\* The test of DEFINE: "len(name) > 3 and name[0] != '_' and name ==
\* name.upper() and name not in self.module.constants_blacklist".
exported(name) ==
    /\ Len(name) > 3
    /\ name[1] # "_"
    /\ name = upper(name)
    /\ name \notin CONSTANTS_BLACKLIST

\* What the classes of Type that a header of Headers can name give their
\* instances.
TypeClasses ==
    [Integer |-> [interface |-> "integer", buildstr |-> "i", sense |-> "IN"],
     Integer64Unsigned |-> [interface |-> "integer", buildstr |-> "K", sense |-> "IN"],
     String |-> [interface |-> "string", buildstr |-> "s", sense |-> "IN"],
     StringOut |-> [interface |-> "string", buildstr |-> "s", sense |-> "OUT"],
     Char_and_Length |-> [interface |-> "char_and_length", buildstr |-> "s#", sense |-> "IN"],
     Char_and_Length_OUT |-> [interface |-> "char_and_length", buildstr |-> "l",
                              sense |-> "OUT_DONE"],
     Void |-> [interface |-> "None", buildstr |-> "", sense |-> "IN"],
     Wrapper |-> [interface |-> "None", buildstr |-> "O", sense |-> "IN"],
     PointerWrapper |-> [interface |-> "None", buildstr |-> "O", sense |-> "IN"],
     EnumType |-> [interface |-> "integer", buildstr |-> "i", sense |-> "IN"],
     PInteger64UnsignedOut |-> [interface |-> "integer", buildstr |-> "", sense |-> "OUT_DONE"],
     PVoid |-> [interface |-> "None", buildstr |-> "", sense |-> "IN"]]

\* type_dispatcher when HeaderParser.__init__ is over, for the types a header
\* of Headers can name.
type_dispatcher ==
    (<<"i", "n", "t">> :> "Integer") @@ (<<"u", "n", "s", "i", "g", "n", "e", "d", " ", "i",
                               "n", "t">> :> "Integer") @@
    (<<"u", "i", "n", "t", "6", "4", "_", "t">> :> "Integer64Unsigned") @@
    (<<"c", "h", "a", "r", " ", "*">> :> "String") @@ (<<"I", "N", " ", "c", "h", "a", "r", " ", "*">> :> "String") @@
    (<<"O", "U", "T", " ", "c", "h", "a", "r", " ", "*">> :> "StringOut") @@ (<<"v", "o", "i", "d">> :> "Void") @@
    (<<"O", "b", "j", "e", "c", "t">> :> "Wrapper") @@ (<<"O", "b", "j", "e", "c", "t", " ", "*">> :> "PointerWrapper")

\* type_dispatcher[type](name, type)
Type(dispatcher, name, type) ==
    [class |-> dispatcher[type], name |-> name, type |-> type,
     length |-> <<>>, length_type |-> <<>>]

\* typedefed_re.match(type).group(1) for "struct (.+)_t \*": the text
\* between "struct " and the last "_t *", the empty text without a match.
typedefed(type) ==
    LET ix == {i \in 9..(Len(type) - 3) :
                  SubSeq(type, i, i + 3) = <<"_", "t", " ", "*">>}
    IN  IF Len(type) >= 12 /\ SubSeq(type, 1, 7) = <<"s", "t", "r", "u", "c", "t",
                                                     " ">> /\ ix # {}
        THEN SubSeq(type, 8, SetMax(ix) - 1) ELSE <<>>

\* Method.add_arg(type, name) on the argument list args
add_arg(dispatcher, args, type, name) ==
    LET known == IF type \in DOMAIN dispatcher THEN type ELSE typedefed(type)
        t == Type(dispatcher, name, known)
        previous == args[Len(args)]
    IN  IF known \notin DOMAIN dispatcher THEN args
        ELSE IF /\ args # <<>>
                /\ TypeClasses[t.class].interface = "integer"
                /\ TypeClasses[previous.class].interface = "string"
        THEN [args EXCEPT ![Len(args)] =
                 [class |-> IF TypeClasses[previous.class].sense = "OUT"
                            THEN "Char_and_Length_OUT" ELSE "Char_and_Length",
                  name |-> previous.name, type |-> previous.type,
                  length |-> name, length_type |-> known]]
        ELSE Append(args, t)

\* The format string write_local_vars makes up for the arguments, none of
\* which has a default.
RECURSIVE parse_line(_)
parse_line(args) ==
    IF args = <<>> THEN ""
    ELSE TypeClasses[args[1].class].buildstr \o parse_line(Tail(args))

NoEnum == [open |-> FALSE, name |-> <<>>, values |-> <<>>]

NoCurrentMethod ==
    [kind |-> "None", name |-> <<>>, return_type |-> <<>>, modifier |-> <<>>, args |-> <<>>]

\* ClassGenerator(class_name, base_class_name, module), an Enum, or the
\* ClassGenerator.clone(class_name) of a class: an entry of module.classes.
Generator(kind, class_name, base_class_name, ms) ==
    [kind |-> kind, class_name |-> class_name, base_class_name |-> base_class_name,
     methods |-> ms, constructor |-> NoCurrentMethod, values |-> <<>>]

\* The handler t of HeaderParser called with the match of row k on s; hp
\* holds the fields of the parser and of its module.
Handler(t, k, s, hp) ==
    CASE t = "DEFINE" ->
            LET line == split_comment(group(k, 0, s))
                type == IF \E i \in 1..Len(line) : line[i] = "\""
                        THEN "string" ELSE "integer"
                name == strip(group(k, 1, s))
            IN  IF exported(name)
                THEN [hp EXCEPT !.constants = @ \cup {<<name, type>>}]
                ELSE hp
      [] t = "CLASS_START" ->
            LET class_name == strip(group(k, 2, s))
                base_class_name == strip(group(k, 3, s))
                cls == IF base_class_name \in DOMAIN hp.classes
                       THEN Generator("ClassGenerator", class_name, base_class_name,
                                      hp.classes[base_class_name].methods)
                       ELSE Generator("ClassGenerator", class_name, base_class_name, <<>>)
            IN  [hp EXCEPT !.current_class = class_name,
                           !.classes = (class_name :> cls) @@ @,
                           !.type_dispatcher =
                               (class_name :> "Wrapper") @@
                               ((class_name \o <<" ", "*">>) :> "PointerWrapper") @@ @]
      [] t = "METHOD_START" ->
            LET return_type == strip(group(k, 2, s))
                method_name == strip(group(k, 5, s))
                modifier == group(k, 1, s)
                kind == IF /\ return_type = hp.current_class
                           /\ Len(method_name) >= 3
                           /\ SubSeq(method_name, 1, 3) = <<"C", "o", "n">>
                        THEN "ConstructorMethod"
                        ELSE IF method_name = <<"i", "t", "e", "r", "n", "e", "x",
                                                "t">> THEN "IteratorMethod"
                        ELSE IF method_name = <<"_", "_", "i", "t", "e", "r", "_",
                                                "_">> THEN "SelfIteratorMethod"
                        ELSE "Method"
            IN  IF modifier = <<"P", "R", "I", "V", "A", "T", "E">> THEN hp
                ELSE [hp EXCEPT !.current_method =
                         [kind |-> kind, name |-> method_name, return_type |-> return_type,
                          modifier |-> modifier, args |-> <<>>]]
      [] t = "METHOD_ARG" ->
            LET name == strip(group(k, 2, s))
                type == strip(group(k, 1, s))
            IN  IF hp.current_method.kind = "None" THEN hp
                ELSE [hp EXCEPT !.current_method.args =
                         add_arg(hp.type_dispatcher, @, type, name)]
      [] t = "METHOD_END" ->
            LET cur == hp.current_method
                ms == hp.classes[hp.current_class].methods
                i == Find(ms, cur.name)
            IN  IF cur.kind = "None" THEN hp
                ELSE IF cur.kind = "ConstructorMethod"
                THEN [hp EXCEPT !.classes[hp.current_class].constructor = cur,
                                !.current_method = NoCurrentMethod]
                ELSE IF i # 0
                THEN [hp EXCEPT !.classes[hp.current_class].methods[i] = cur,
                                !.current_method = NoCurrentMethod]
                ELSE [hp EXCEPT !.classes[hp.current_class].methods = Append(@, cur),
                                !.current_method = NoCurrentMethod]
      [] t = "END_CLASS" -> [hp EXCEPT !.current_class = <<>>]
      [] t = "ENUM_START" ->
            [hp EXCEPT !.current_enum =
                [open |-> TRUE, name |-> strip(group(k, 1, s)), values |-> <<>>]]
      [] t = "TYPEDEF_ENUM_START" ->
            [hp EXCEPT !.current_enum = [open |-> TRUE, name |-> <<>>, values |-> <<>>]]
      [] t = "ENUM_VALUE" ->
            [hp EXCEPT !.current_enum.values = Append(@, strip(group(k, 1, s)))]
      [] t \in {"ENUM_END", "TYPEDEFED_ENUM_END"} ->
            LET name == IF t = "ENUM_END" THEN hp.current_enum.name ELSE group(k, 1, s)
                values == hp.current_enum.values
                enum == [Generator("Enum", name, <<>>, <<>>) EXCEPT !.values = values]
            IN  [hp EXCEPT !.classes = (name :> enum) @@ @,
                           !.constants = @ \cup {<<values[i], "integer">> : i \in 1..Len(values)},
                           !.type_dispatcher = (name :> "EnumType") @@ @,
                           !.current_enum = NoEnum]
      [] OTHER -> hp

\* "for t in token.split(','): cb = getattr(self, t, self.default_handler);
\* cb(t, m)": the handlers of a row, in order.
RECURSIVE Handlers(_, _, _, _)
Handlers(acts, k, s, hp) ==
    IF acts = <<>> THEN hp
    ELSE Handlers(Tail(acts), k, s, Handler(acts[1], k, s, hp))

\* The fields of a HeaderParser whose __init__ is over, and of its Module.
NewHeaderParser ==
    [constants |-> {},
     classes |-> (<<"O", "b", "j", "e", "c", "t">> :> Generator("ClassGenerator", <<"O", "b", "j",
                                                            "e", "c", "t">>, <<"O",
                                                                      "b",
                                                                      "j">>, <<>>)),
     type_dispatcher |-> type_dispatcher,
     current_class |-> <<>>,
     current_method |-> NoCurrentMethod,
     current_enum |-> NoEnum]

\* SelfFeederMixIn.parse_fd(fd): "self.feed(fd.read())", and the loop begins.
ParseFd ==
    /\ ~closing
    /\ feeds < MaxHeaders
    /\ \E h \in DOMAIN Headers :
          /\ feed(Headers[h])
          /\ parsed' = Append(parsed, h)
    /\ feeds' = feeds + 1
    /\ closing' = TRUE
    /\ UNCHANGED header_parser
    /\ UNCHANGED headerrest

\* "while self.next_token(): pass": one turn of the loop of parse_fd.
ParseStep ==
    /\ closing
    /\ next_token(TRUE)
    /\ closing' = Truthy(ret')
    /\ header_parser' =
          IF rule_ix' = 0 THEN header_parser
          ELSE Handlers(SplitComma(tokens[rule_ix'].token), rule_ix', buffer, header_parser)
    /\ UNCHANGED parsed
    /\ UNCHANGED headerrest

\* HeaderParser.__init__ has parsed "// Base object", "CLASS(Object, Obj)"
\* and "END_CLASS".
HeaderInit ==
    /\ state = "INITIAL"
    /\ state_stack = <<>>
    /\ buffer = <<>>
    /\ error = 0
    /\ processed = Len(<<"/", "/", " ", "B", "a", "s", "e", " ", "o", "b", "j",
                         "e", "c", "t", "\n", "C", "L", "A", "S", "S", "(", "O",
                         "b", "j", "e", "c", "t", ",", " ", "O", "b", "j", ")",
                         "\n", "E", "N", "D", "_", "C", "L", "A", "S", "S", "\n">>)
    /\ processed_buffer = <<"/", "/", " ", "B", "a", "s", "e", " ", "o", "b", "j",
                            "e", "c", "t", "\n", "C", "L", "A", "S", "S", "(", "O",
                            "b", "j", "e", "c", "t", ",", " ", "O", "b", "j", ")",
                            "\n", "E", "N", "D", "_", "C", "L", "A", "S", "S",
                            "\n">>
    /\ op = "next_token"
    /\ ret = None
    /\ rule_ix = 0
    /\ current_state = "INITIAL"
    /\ m_end = 0
    /\ end_seen = TRUE
    /\ calls = <<>>
    /\ callbacks = "HeaderParser"
    /\ feeds = 0
    /\ closing = FALSE
    /\ parsed = <<>>
    /\ header_parser = NewHeaderParser

HeaderNext == ParseFd \/ ParseStep

(***************************************************************************)
(* The wrapper objects of the generated module: the registry               *)
(* python_wrappers, new_class_wrapper, the constructors, the results       *)
(* Wrapper.assign and StructWrapper.assign wrap, and the destructors.  A   *)
(* native object is a number, 0 for NULL; a call into the native library   *)
(* returns NULL or an object allocated for the call.                       *)
(***************************************************************************)
MaxWrappers == 2
MaxObjects == 2

\* The classes of the native library: __super__ of each; class 1 is the
\* root, its own __super__.
super == <<1, 1, 2>>

NativeClasses == DOMAIN super

\* The Python type of the wrappers of a struct.
StructType == Len(super) + 1

\* A slot that holds no wrapper.
NoWrapper == [type |-> 0, base |-> 0, base_is_python_object |-> 0, base_is_internal |-> 0]

\* The slot a new wrapper takes: the first that holds none.
NewSlot(ws, w) == ws[w].type = 0 /\ \A v \in 1..(w - 1) : ws[v].type # 0

\* The registries Module.write can emit: ClassGenerator.initialise gives an
\* active class an entry, with initialize_proxies when the function is defined.
Registries ==
    {r \in SUBSET [class_ref : NativeClasses, initialize_proxies : BOOLEAN] :
        \A e1, e2 \in r : e1.class_ref = e2.class_ref => e1 = e2}

\* The loop of new_class_wrapper from cls on: the class whose entry it
\* matches, 0 when it leaves the loop without a match.
RECURSIVE search(_, _)
search(registry, cls) ==
    IF cls = super[cls] THEN 0
    ELSE IF \E e \in registry : e.class_ref = cls THEN cls
    ELSE search(registry, super[cls])

\* A caller that says of every item that it is a Python object.
item_is_python_object_always(self) == 1

\* The second argument Wrapper.assign passes to new_class_wrapper:
\* self->base_is_python_object.
item_is_python_object(self) == self.base_is_python_object

\* The free the error paths of Wrapper.assign make of returned_object.
assign_free(self, returned_object) ==
    IF returned_object # 0 /\ self.base_is_python_object = 0 /\ self.base_is_internal # 0
    THEN <<returned_object>> ELSE <<>>

\* py{class}_init of a ConstructorMethod, on a new object or on one that
\* exists: alloc_{class}() and the flags, or on_error.
py_init ==
    /\ ~crashed
    /\ allocated < MaxObjects
    /\ \E w \in 1..MaxWrappers, cls \in NativeClasses, failed \in BOOLEAN :
          /\ NewSlot(wrappers, w) \/ wrappers[w].type = cls
          /\ [class_ref |-> cls, initialize_proxies |-> TRUE] \in python_wrappers
          /\ IF failed
             THEN /\ wrappers' = [wrappers EXCEPT ![w] = [@ EXCEPT !.type = cls, !.base = 0]]
                  /\ freed' = IF wrappers[w].base # 0
                              THEN Append(freed, wrappers[w].base) ELSE freed
                  /\ UNCHANGED allocated
             ELSE /\ wrappers' = [wrappers EXCEPT ![w] =
                                     [type |-> cls, base |-> allocated + 1,
                                      base_is_python_object |-> 0, base_is_internal |-> 1]]
                  /\ allocated' = allocated + 1
                  /\ UNCHANGED freed
    /\ UNCHANGED <<python_wrappers, resolved, dealloc, crashed>>
    /\ UNCHANGED objrest

\* A method of the wrapper self returns an object of a wrapped class:
\* Wrapper.assign, with new_class_wrapper for what the call returned.
AssignWrapper ==
    /\ ~crashed
    /\ allocated < MaxObjects
    /\ \E s \in 1..MaxWrappers, w \in 1..MaxWrappers, cls \in NativeClasses,
          null \in BOOLEAN, check_error \in BOOLEAN, ub \in BOOLEAN :
          LET self == wrappers[s]
              returned_object == IF null THEN 0 ELSE allocated + 1
              found == search(python_wrappers, cls)
              entry == CHOOSE e \in python_wrappers : e.class_ref = found
          IN  /\ self.type \in NativeClasses
              /\ self.base # 0
              /\ NewSlot(wrappers, w)
              /\ IF null THEN allocated' = allocated ELSE allocated' = allocated + 1
              /\ IF check_error
                 THEN /\ freed' = freed \o assign_free(self, returned_object)
                      /\ UNCHANGED <<wrappers, resolved, crashed>>
                 ELSE IF null
                 THEN UNCHANGED <<wrappers, freed, resolved, crashed>>
                 ELSE IF found = 0
                 THEN /\ freed' = freed \o assign_free(self, returned_object)
                      /\ resolved' = [class |-> cls, type |-> 0]
                      /\ UNCHANGED <<wrappers, crashed>>
                 ELSE /\ wrappers' = [wrappers EXCEPT ![w] =
                            [type |-> found, base |-> returned_object,
                             base_is_python_object |-> item_is_python_object(self),
                             base_is_internal |-> 1]]
                      /\ resolved' = [class |-> cls, type |-> found]
                      /\ crashed' = (~entry.initialize_proxies /\ ub)
                      /\ UNCHANGED freed
    /\ UNCHANGED <<python_wrappers, dealloc>>
    /\ UNCHANGED objrest

\* A method or an attribute returns a struct: StructWrapper.assign.
AssignStruct ==
    /\ ~crashed
    /\ allocated < MaxObjects
    /\ \E w \in 1..MaxWrappers, borrowed \in BOOLEAN :
          /\ NewSlot(wrappers, w)
          /\ wrappers' = [wrappers EXCEPT ![w] =
                [type |-> StructType, base |-> allocated + 1, base_is_python_object |-> 0,
                 base_is_internal |-> IF borrowed THEN 0 ELSE 1]]
    /\ allocated' = allocated + 1
    /\ UNCHANGED <<python_wrappers, freed, resolved, dealloc, crashed>>
    /\ UNCHANGED objrest

\* py{class}_dealloc: ConstructorMethod.write_destructor for a class,
\* StructConstructor.write_destructor for a struct.
Dealloc ==
    /\ ~crashed
    /\ \E w \in 1..MaxWrappers :
          LET self == wrappers[w]
              free == /\ self.type # StructType
                      /\ self.base # 0
                      /\ self.base_is_python_object = 0
                      /\ self.base_is_internal # 0
          IN  /\ self.type # 0
              /\ freed' = IF free THEN Append(freed, self.base) ELSE freed
              /\ dealloc' = [self |-> self, free |-> free]
              /\ wrappers' = [wrappers EXCEPT ![w] = NoWrapper]
    /\ UNCHANGED <<python_wrappers, allocated, resolved, crashed>>
    /\ UNCHANGED objrest

\* The module has been initialised: the registry is filled, no wrapper exists.
ObjInit ==
    /\ python_wrappers \in Registries
    /\ wrappers = [w \in 1..MaxWrappers |-> NoWrapper]
    /\ allocated = 0
    /\ freed = <<>>
    /\ resolved = [class |-> 0, type |-> 0]
    /\ dealloc = [self |-> NoWrapper, free |-> FALSE]
    /\ crashed = FALSE

ObjNext == py_init \/ AssignWrapper \/ AssignStruct \/ Dealloc

(***************************************************************************)
(* The scalar integer family: Integer8 .. Integer16Unsigned.  The code the *)
(* generator writes for a conversion is                                    *)
(*     destination = PyLong_AsLongMask(source);          (signed)          *)
(*     destination = PyLong_AsUnsignedLongMask(source);  (unsigned)        *)
(* where destination is a variable of the variant's int_type, and          *)
(*     result = PyLong_FromLong((long) name);                              *)
(* for the way back.  The 8 and 16 bit variants are modelled with their    *)
(* exact width; the wider variants share this code with a long in the      *)
(* place of the narrow destination and are beyond the integers of this     *)
(* model.                                                                  *)
(***************************************************************************)
MaxExcess == 2
LongLowBits == 24

\* int_type of Integer8, Integer8Unsigned, Integer16, Integer16Unsigned
int_types ==
    [int8_t |-> [class |-> "Integer8", base |-> "Integer", bits |-> 8, signed |-> TRUE],
     uint8_t |-> [class |-> "Integer8Unsigned", base |-> "IntegerUnsigned", bits |-> 8,
                  signed |-> FALSE],
     int16_t |-> [class |-> "Integer16", base |-> "Integer", bits |-> 16, signed |-> TRUE],
     uint16_t |-> [class |-> "Integer16Unsigned", base |-> "IntegerUnsigned", bits |-> 16,
                   signed |-> FALSE]]

\* The least and the greatest value of an int_type.
IntMin(t) == IF int_types[t].signed THEN -(2 ^ (int_types[t].bits - 1)) ELSE 0
IntMax(t) ==
    IF int_types[t].signed THEN 2 ^ (int_types[t].bits - 1) - 1 ELSE 2 ^ int_types[t].bits - 1

\* The managed integers handed to a conversion to t: around both ends of the
\* range of t, and a few small ones.
PyIntegers(t) ==
    {IntMin(t) - k : k \in 0..MaxExcess} \cup {IntMax(t) + k : k \in 0..MaxExcess}
        \cup {-1, 0, 1, 7, 263}

\* The assignment of a long to a variable of type t: the value modulo
\* 2^bits, read as signed or unsigned.
CAssign(t, v) ==
    LET w == 2 ^ int_types[t].bits
    IN  IF int_types[t].signed
        THEN ((v + w \div 2) % w) - w \div 2
        ELSE v % w

\* PyLong_AsLongMask: the value reduced modulo the width of a long, with no
\* error for an integer of any size.  Every integer of the model fits.
PyLong_AsLongMask(v) == [value |-> v, raised |-> FALSE]

\* PyLong_AsUnsignedLongMask: the value reduced modulo the width of an
\* unsigned long, with no error for an integer of any size or sign.  The
\* model keeps the low LongLowBits bits of the unsigned long, which are all
\* that an assignment to a narrower unsigned destination reads.
PyLong_AsUnsignedLongMask(v) == [value |-> v % (2 ^ LongLowBits), raised |-> FALSE]

\* Integer.from_python_object / IntegerUnsigned.from_python_object
\* with a destination of type t
Integer_from_python_object(t, v) ==
    LET masked == IF int_types[t].base = "Integer"
                  THEN PyLong_AsLongMask(v) ELSE PyLong_AsUnsignedLongMask(v)
    IN  [value |-> CAssign(t, masked.value), raised |-> masked.raised]

\* Integer.to_python_object / IntegerUnsigned.to_python_object:
\* PyLong_FromLong((long) name), which widens name and keeps its value.
Integer_to_python_object(t, x) == x

NoConversion == [int_type |-> "int8_t", source |-> 0]

\* The generated "destination = PyLong_As...Mask(source);"
FromPython ==
    /\ conv_pc = "managed"
    /\ LET r == Integer_from_python_object(conversion.int_type, conversion.source)
       IN  /\ destination' = r.value
           /\ conv_raised' = r.raised
    /\ conv_pc' = "native"
    /\ UNCHANGED <<conversion, py_back>>
    /\ UNCHANGED convrest

\* The generated "Py_result = PyLong_FromLong((long) destination);"
ToPython ==
    /\ conv_pc = "native"
    /\ ~conv_raised
    /\ py_back' = Integer_to_python_object(conversion.int_type, destination)
    /\ conv_pc' = "back"
    /\ UNCHANGED <<conversion, destination, conv_raised>>
    /\ UNCHANGED convrest

ConvInit ==
    /\ \E t \in DOMAIN int_types : \E v \in PyIntegers(t) :
           conversion = [int_type |-> t, source |-> v]
    /\ destination = 0
    /\ py_back = 0
    /\ conv_raised = FALSE
    /\ conv_pc = "managed"

ConvNext == FromPython \/ ToPython

(***************************************************************************)
(* Lexer.save_state and Lexer.restore_state, for a lexer that feeds itself *)
(* from self.fd.  A Python list is an object: restore_state assigns the    *)
(* list held by the saved dict to self.state_stack, and PUSH_STATE and     *)
(* POP_STATE change the list they are given in place.  stack_shared says   *)
(* that self.state_stack and saved_state["state_stack"] are one list.      *)
(***************************************************************************)
MaxRestores == 2

\* The file behind self.fd.
FdText == <<"/", "*", "x", "*", "/", "\n">>

\* The sizes of the reads from self.fd.
SectorSizes == {2, 3}

\* saved_state = None
NoSavedState ==
    [set |-> FALSE, state_stack |-> <<>>, processed |-> 0, processed_buffer |-> <<>>,
     readptr |-> 0, state |-> "INITIAL", objects |-> <<>>, error |-> 0]

\* The value of the lexer's fields that restore_state is to bring back.
NoSnapshot ==
    [set |-> FALSE, state_stack |-> <<>>, processed |-> 0, processed_buffer |-> <<>>,
     state |-> "INITIAL", error |-> 0]

\* The fields of the lexer that neither save_state nor restore_state assigns.
LexerLocals == <<ret, rule_ix, current_state, m_end, end_seen, calls, callbacks, closing>>

\* self.feed(self.fd.read(n))
ReadFd ==
    /\ fd_pos < Len(FdText)
    /\ \E n \in SectorSizes :
          LET last == IF fd_pos + n > Len(FdText) THEN Len(FdText) ELSE fd_pos + n
          IN  /\ feed(SubSeq(FdText, fd_pos + 1, last))
              /\ fd_pos' = last
    /\ feeds' = feeds + 1
    /\ UNCHANGED <<closing, saved_state, stack_shared, snapshot, restores>>
    /\ UNCHANGED saverest

\* Lexer.next_token(end), whose PUSH_STATE and POP_STATE change the list
\* self.state_stack in place: a saved dict that holds the same list sees the
\* change.
SavedNextToken ==
    /\ \E end \in BOOLEAN : next_token(end)
    /\ saved_state' = IF stack_shared
                      THEN [saved_state EXCEPT !.state_stack = state_stack']
                      ELSE saved_state
    /\ UNCHANGED <<closing, stack_shared, snapshot, restores, fd_pos>>
    /\ UNCHANGED saverest

\* Lexer.save_state(), with no match: end = 0
save_state ==
    /\ op' = "save_state"
    /\ IF error # 0
       THEN UNCHANGED <<saved_state, stack_shared>>
       ELSE /\ saved_state' = [set |-> TRUE,
                               state_stack |-> state_stack,
                               processed |-> processed - 0,
                               processed_buffer |-> processed_buffer,
                               readptr |-> fd_pos - Len(buffer) - 0,
                               state |-> state,
                               objects |-> <<>>,
                               error |-> error]
            /\ stack_shared' = FALSE
    /\ snapshot' = IF error = 0
                   THEN [set |-> TRUE, state_stack |-> state_stack, processed |-> processed,
                         processed_buffer |-> processed_buffer, state |-> state,
                         error |-> error]
                   ELSE snapshot
    /\ UNCHANGED <<state, state_stack, buffer, error, processed, processed_buffer, feeds,
                   fd_pos, restores>>
    /\ UNCHANGED LexerLocals
    /\ UNCHANGED saverest

\* Lexer.restore_state()
restore_state ==
    /\ restores < MaxRestores
    /\ restores' = restores + 1
    /\ op' = "restore_state"
    /\ IF ~saved_state.set
       THEN UNCHANGED <<state, state_stack, buffer, error, processed, processed_buffer,
                        fd_pos, stack_shared>>
       ELSE /\ state_stack' = saved_state.state_stack
            /\ stack_shared' = TRUE
            /\ processed' = saved_state.processed
            /\ processed_buffer' = saved_state.processed_buffer
            /\ buffer' = <<>>
            /\ fd_pos' = saved_state.readptr
            /\ state' = saved_state.state
            /\ error' = saved_state.error
    /\ UNCHANGED <<saved_state, snapshot, feeds>>
    /\ UNCHANGED LexerLocals
    /\ UNCHANGED saverest

SaveInit ==
    /\ saved_state = NoSavedState
    /\ stack_shared = FALSE
    /\ fd_pos = 0
    /\ snapshot = NoSnapshot
    /\ restores = 0

SaveNext == ReadFd \/ SavedNextToken \/ save_state \/ restore_state

(***************************************************************************)
(* The bytes of the lexer: feed() and next_token() with a record of all    *)
(* the data fed.                                                           *)
(***************************************************************************)
\* The pieces of input handed to feed(): the fragments of headers and one
\* byte that starts no token.
ByteFragments == Fragments \cup {<<"!">>, <<"!", "\n">>}

\* Lexer.feed(data)
FeedBytes ==
    /\ feeds < MaxFeeds
    /\ \E data \in ByteFragments :
          /\ feed(data)
          /\ fed' = fed \o data
    /\ feeds' = feeds + 1
    /\ UNCHANGED closing
    /\ UNCHANGED byterest

\* Lexer.next_token(end)
LexBytes ==
    /\ \E end \in BOOLEAN : next_token(end)
    /\ UNCHANGED <<closing, fed>>
    /\ UNCHANGED byterest

ByteInit == fed = <<>>

ByteNext == FeedBytes \/ LexBytes

(***************************************************************************)
(* The pending docstring: HeaderParser.current_comment, which COMMENT and  *)
(* COMMENT_END extend, CLEAR_COMMENT empties, and CLASS_START and          *)
(* METHOD_START copy into the docstring of the declaration they begin.     *)
(***************************************************************************)
\* Header files.  In each of them the comment text "old" is followed by a
\* blank line before the next declaration, and the comment text "doc" is
\* followed by the declaration it describes.
DocHeaders ==
    [adjacent |-> <<"/", "*", " ", "d", "o", "c", " ", "*", "/", "\n", "C", "L",
                    "A", "S", "S", "(", "F", "o", "o", ",", " ", "O", "b", "j",
                    ")", "\n", "E", "N", "D", "_", "C", "L", "A", "S", "S", "\n">>,
     line_comment |-> <<"/", "/", " ", "o", "l", "d", "\n", "\n", "/", "/", " ",
                        "d", "o", "c", "\n", "C", "L", "A", "S", "S", "(", "F",
                        "o", "o", ",", " ", "O", "b", "j", ")", "\n", "E", "N",
                        "D", "_", "C", "L", "A", "S", "S", "\n">>,
     after_comment |-> <<"/", "*", " ", "o", "l", "d", " ", "*", "/", "\n", "\n",
                         "C", "L", "A", "S", "S", "(", "F", "o", "o", ",", " ",
                         "O", "b", "j", ")", "\n", "E", "N", "D", "_", "C", "L",
                         "A", "S", "S", "\n">>,
     after_space |-> <<"/", "/", " ", "o", "l", "d", "\n", " ", "\n", "\n", "C",
                       "L", "A", "S", "S", "(", "F", "o", "o", ",", " ", "O", "b",
                       "j", ")", "\n", "E", "N", "D", "_", "C", "L", "A", "S", "S",
                       "\n">>,
     method |-> <<"C", "L", "A", "S", "S", "(", "F", "o", "o", ",", " ", "O", "b",
                  "j", ")", "\n", "/", "*", " ", "o", "l", "d", " ", "*", "/",
                  "\n", "\n", "i", "n", "t", " ", "M", "E", "T", "H", "O", "D",
                  "(", "F", "o", "o", ",", " ", "B", "a", "r", ")", ";", "\n", "E",
                  "N", "D", "_", "C", "L", "A", "S", "S", "\n">>]

\* The element of a comment rule's pattern that its group 1 spans; the rule
\* "(.+)" has one element, which is its group.
CommentGroup == (6 :> 1) @@ (8 :> 3)

\* m.group(1) of the match of the comment rule k on the text s
comment_group(k, s) ==
    IF k \notin DOMAIN CommentGroup THEN SubSeq(s, 1, MatchEnd(tokens[k].re, s))
    ELSE LET ends == <<0>> \o PickEnds(tokens[k].re[2], 1, s, 0, 0, 0..Len(s))
         IN  SubSeq(s, ends[CommentGroup[k]] + 1, ends[CommentGroup[k] + 1])

\* HeaderParser.COMMENT, COMMENT_END, CLEAR_COMMENT, and the docstring
\* assignments of CLASS_START and METHOD_START
DocHandler(t, k, s, d) ==
    CASE t = "COMMENT" -> [d EXCEPT !.current_comment = @ \o comment_group(k, s) \o <<
                                                                                      "\n">>]
      [] t = "COMMENT_END" -> [d EXCEPT !.current_comment = @ \o comment_group(k, s)]
      [] t = "CLEAR_COMMENT" -> [d EXCEPT !.current_comment = <<>>]
      [] t = "CLASS_START" ->
            [d EXCEPT !.docstrings =
                Append(@, [name |-> strip(group(k, 2, s)), docstring |-> d.current_comment])]
      [] t = "METHOD_START" ->
            IF group(k, 1, s) = <<"P", "R", "I", "V", "A", "T", "E">> THEN d
            ELSE [d EXCEPT !.docstrings =
                     Append(@, [name |-> strip(group(k, 5, s)),
                                docstring |-> d.current_comment])]
      [] OTHER -> d

\* The handlers of a row, in order.
RECURSIVE DocHandlers(_, _, _, _)
DocHandlers(acts, k, s, d) ==
    IF acts = <<>> THEN d
    ELSE DocHandlers(Tail(acts), k, s, DocHandler(acts[1], k, s, d))

\* SelfFeederMixIn.parse_fd(fd): "self.feed(fd.read())", and the loop begins.
DocParseFd ==
    /\ ~closing
    /\ feeds < MaxHeaders
    /\ \E h \in DOMAIN DocHeaders :
          /\ feed(DocHeaders[h])
          /\ doc' = [doc EXCEPT !.parsed = Append(@, h)]
    /\ feeds' = feeds + 1
    /\ closing' = TRUE
    /\ UNCHANGED docrest

\* "while self.next_token(): pass", one turn
DocParseStep ==
    /\ closing
    /\ next_token(TRUE)
    /\ closing' = Truthy(ret')
    /\ doc' = IF rule_ix' = 0 THEN doc
              ELSE DocHandlers(SplitComma(tokens[rule_ix'].token), rule_ix', buffer, doc)
    /\ UNCHANGED docrest

\* HeaderParser.current_comment = "", and nothing parsed
DocInit == doc = [current_comment |-> <<>>, docstrings |-> <<>>, parsed |-> <<>>]

DocNext == DocParseFd \/ DocParseStep

(***************************************************************************)
(* HeaderParser.parse_filenames: two passes over header files that declare *)
(* a chain of classes, Base(Object), Derived(Base), Leaf(Derived), each in *)
(* one block and in any order.                                             *)
(***************************************************************************)
\* The classes the files declare, with the base each names.
ChainBase == ("Base" :> "Object") @@ ("Derived" :> "Base") @@ ("Leaf" :> "Derived")

\* The METHOD lines a block may hold, by method name.
BlockMethods == {<<>>, <<"read">>, <<"close">>, <<"read", "close">>}

\* The blocks of the files in the order of the files: every class of the
\* chain once.
FileOrders ==
    {f \in [1..3 -> [name : DOMAIN ChainBase, methods : BlockMethods]] :
        \A c \in DOMAIN ChainBase : \E i \in 1..3 : f[i].name = c}

\* The method METHOD_START makes for the line "int METHOD(class, name);"
NewMethod(class_name, method_name) ==
    [kind |-> "Method", name |-> method_name, class_name |-> class_name,
     definition_class_name |-> class_name, myclass |-> class_name, return_type |-> "int",
     modifier |-> ""]

\* METHOD_END for the line "int METHOD(class, name);": the method replaces
\* the one of its name or is appended.
AddMethod(cls, method_name) ==
    IF Find(cls.methods, method_name) # 0
    THEN [cls EXCEPT !.methods[Find(cls.methods, method_name)] =
                         NewMethod(cls.class_name, method_name)]
    ELSE [cls EXCEPT !.methods = Append(@, NewMethod(cls.class_name, method_name))]

\* The METHOD lines of a block, in order.
RECURSIVE AddMethods(_, _)
AddMethods(cls, names) ==
    IF names = <<>> THEN cls
    ELSE AddMethods(AddMethod(cls, names[1]), Tail(names))

\* CLASS_START: the generator of the class named class_name.
StartClass(table, class_name) ==
    IF ChainBase[class_name] \in DOMAIN table
    THEN clone(table[ChainBase[class_name]], class_name)
    ELSE ClassGenerator(class_name, ChainBase[class_name])

\* CLASS_START, the METHOD lines and END_CLASS of one block: the class table
\* after the block.
ParsedBlock(table, block) ==
    [c \in DOMAIN table \cup {block.name} |->
        IF c = block.name
        THEN AddMethods(StartClass(table, block.name), block.methods)
        ELSE table[c]]

\* The class table after the blocks of fs.
RECURSIVE ParsedFiles(_, _)
ParsedFiles(table, fs) ==
    IF fs = <<>> THEN table ELSE ParsedFiles(ParsedBlock(table, fs[1]), Tail(fs))

\* self._parse(f): the next file of the pass
ParseFile ==
    /\ pass_pos < Len(pass_files)
    /\ pass_table' = ParsedBlock(pass_table, pass_files[pass_pos + 1])
    /\ pass_pos' = pass_pos + 1
    /\ UNCHANGED <<pass_files, passes>>
    /\ UNCHANGED passrest

\* "# Second pass": the first loop of parse_filenames is over
SecondPass ==
    /\ passes = 0
    /\ pass_pos = Len(pass_files)
    /\ passes' = 1
    /\ pass_pos' = 0
    /\ UNCHANGED <<pass_files, pass_table>>
    /\ UNCHANGED passrest

\* parse_filenames returns
PassesDone ==
    /\ passes = 1
    /\ pass_pos = Len(pass_files)
    /\ passes' = 2
    /\ UNCHANGED <<pass_files, pass_table, pass_pos>>
    /\ UNCHANGED passrest

PassInit ==
    /\ pass_files \in FileOrders
    /\ pass_table = ("Object" :> ClassGenerator("Object", "Obj"))
    /\ pass_pos = 0
    /\ passes = 0

PassNext == ParseFile \/ SecondPass \/ PassesDone

(***************************************************************************)
(* One native instance over its life: the generated constructor builds it  *)
(* and runs py<class>_initialize_proxies on it; afterwards                 *)
(* new_class_wrapper wraps it again each time native code returns it or    *)
(* hands it to a trampoline, and runs the class's initialize_proxies with  *)
(* the new wrapper.  Managed objects are numbered in the order they are    *)
(* made; rw_objects[i] is the resolution order of the type of object i.    *)
(***************************************************************************)
MaxRewraps == 2

\* py<class>_initialize_proxies(self, item), on the slots of item: every
\* patch statement whose check_method_override succeeds for self assigns
\* its trampoline; the other slots keep what they hold.
initialize_proxies(self_mro, ms, item_slots) ==
    LET patches_ == initialise_proxies(ms)
        patch(name) == {k \in 1..Len(patches_) :
                           /\ patches_[k].name = name
                           /\ check_method_override(self_mro, patches_[k].type, name)}
    IN  [name \in DOMAIN item_slots |->
            IF patch(name) # {} THEN patches_[SetMax(patch(name))].proxied_name
            ELSE item_slots[name]]

\* The generated constructor py<class>_init of a managed object whose type
\* has the resolution order Mro(managed, ...): alloc_<class>() and then
\* py<class>_initialize_proxies(self, self->base).
RewrapConstruct ==
    /\ rw_objects = <<>>
    /\ \E managed \in ManagedTypes :
          LET self_mro == Mro(managed, rw_methods)
              fresh == [name \in {rw_methods[i].name : i \in 1..Len(rw_methods)} |->
                           NativeImpl(name)]
          IN  /\ rw_objects' = <<self_mro>>
              /\ rw_slots' = initialize_proxies(self_mro, rw_methods, fresh)
              /\ rw_built' = initialize_proxies(self_mro, rw_methods, fresh)
    /\ rw_extension' = 1
    /\ rw_runs' = 1
    /\ UNCHANGED <<rw_methods, rw_call>>
    /\ UNCHANGED rewraprest

\* new_class_wrapper(item, ...) on the instance: _PyObject_New of the
\* wrapper type of the class, then
\* python_wrapper->initialize_proxies(result, item).
Rewrap ==
    /\ rw_objects # <<>>
    /\ Len(rw_objects) <= MaxRewraps
    /\ LET result_mro == Mro(<<>>, rw_methods)
       IN  /\ rw_objects' = Append(rw_objects, result_mro)
           /\ rw_slots' = initialize_proxies(result_mro, rw_methods, rw_slots)
    /\ rw_extension' = Len(rw_objects) + 1
    /\ rw_runs' = rw_runs + 1
    /\ UNCHANGED <<rw_methods, rw_built, rw_call>>
    /\ UNCHANGED rewraprest

\* Native code calls a method of the instance through its slot: a
\* trampoline calls the method of that name on the extension, which the
\* first type of the extension's resolution order that has it receives.
RewrapCall ==
    /\ rw_objects # <<>>
    /\ \E name \in DOMAIN rw_slots :
          rw_call' =
              IF rw_slots[name] = NativeImpl(name)
              THEN [name |-> name, via |-> "native", receiver |-> 0]
              ELSE [name |-> name, via |-> "trampoline",
                    receiver |->
                        SetMin({i \in 1..Len(rw_objects[rw_extension]) :
                                   name \in rw_objects[rw_extension][i].dict})]
    /\ UNCHANGED <<rw_methods, rw_objects, rw_slots, rw_extension, rw_runs, rw_built>>
    /\ UNCHANGED rewraprest

RewrapInit ==
    /\ rw_methods \in MethodLists
    /\ rw_objects = <<>>
    /\ rw_slots = <<>>
    /\ rw_extension = 0
    /\ rw_runs = 0
    /\ rw_built = <<>>
    /\ rw_call = [name |-> "", via |-> "", receiver |-> 0]

RewrapNext == RewrapConstruct \/ Rewrap \/ RewrapCall

(***************************************************************************)
(* One declaration and what the generator makes of it: the handlers build  *)
(* a method from "return_type METHOD(class, name, type name, ...);"        *)
(* (METHOD_START, METHOD_ARG per parameter, METHOD_END) or a struct from   *)
(* its attribute lines (STRUCT_ATTRIBUTE per line, STRUCT_END), and        *)
(* Method.write_local_vars writes the keyword list, the format string and  *)
(* the destinations of the call of PyArg_ParseTupleAndKeywords.            *)
(***************************************************************************)
MaxParams == 3

\* type_dispatcher with the rows of the OUT integer pointer and of the void
\* pointer.
arg_dispatcher ==
    [t \in DOMAIN type_dispatcher \cup {<<"O", "U", "T", " ", "u", "i", "n", "t",
                                          "6", "4", "_", "t", " ", "*">>, <<"v", "o", "i", "d",
                                                            " ", "*">>} |->
        IF t = <<"O", "U", "T", " ", "u", "i", "n", "t", "6", "4", "_", "t", " ",
                 "*">> THEN "PInteger64UnsignedOut"
        ELSE IF t = <<"v", "o", "i", "d", " ", "*">> THEN "PVoid"
        ELSE type_dispatcher[t]]

\* The spellings a parameter, an attribute or a return type has in the
\* declarations: registered ones and two that no row of the registry has.
ParamTypes ==
    {<<"i", "n", "t">>, <<"c", "h", "a", "r", " ", "*">>, <<"O", "U", "T", " ", "c", "h", "a", "r", " ", "*">>, <<"O", "U", "T", " ", "u", "i", "n", "t", "6",
                                      "4", "_", "t", " ", "*">>, <<"v", "o", "i", "d", " ",
                                                        "*">>, <<"f", "o", "o",
                                                                  "_", "t">>,
     <<"s", "t", "r", "u", "c", "t", " ", "f", "o", "o", "_", "t", " ", "*">>}

ReturnSpellings == {<<"i", "n", "t">>, <<"f", "o", "o", "_", "t">>, <<>>}

\* The name of the i-th parameter.
ParamName(i) == <<"p", <<"1", "2", "3", "4", "5">>[i]>>

\* The declarations: a method or a struct, the types of its parameters or
\* attributes, and the parameter a DEFAULT line of the docstring names.
Declarations ==
    [kind : {"method", "struct"}, return_type : ReturnSpellings,
     types : UNION {[1..n -> ParamTypes] : n \in 0..MaxParams},
     default : {<<>>} \cup {ParamName(i) : i \in 1..MaxParams}]

\* An add_arg that catches KeyError only.
AddArgCaughtKeyError == {"KeyError"}

\* "except (KeyError, AttributeError)" of add_arg
AddArgCaught == {"KeyError", "AttributeError"}

\* The exception that leaves Method.add_arg(type, name), "" when none does:
\* type_dispatcher[type] raises KeyError for a spelling without a row, and
\* m.group(1) raises AttributeError when typedefed_re does not match.
add_arg_raises(dispatcher, type) ==
    LET second == IF typedefed(type) = <<>> THEN "AttributeError"
                  ELSE IF typedefed(type) \notin DOMAIN dispatcher THEN "KeyError"
                  ELSE ""
    IN  IF type \in DOMAIN dispatcher THEN ""
        ELSE IF second \in AddArgCaught THEN ""
        ELSE second

\* dispatch("func_return", return_type) in Method.__init__: the class of the
\* return type; KeyError is caught and gives PVoid, as the empty spelling
\* does.
return_class(dispatcher, return_type) ==
    IF return_type = <<>> THEN "PVoid"
    ELSE IF return_type \in DOMAIN dispatcher THEN dispatcher[return_type]
    ELSE "PVoid"

\* ClassGenerator.add_attribute(attr_name, attr_type, ""): dispatch raises
\* KeyError for a spelling without a row and the attribute is left out.
add_attribute(dispatcher, attributes, attr_name, attr_type) ==
    IF attr_type \in DOMAIN dispatcher
    THEN Append(attributes, Type(dispatcher, attr_name, attr_type))
    ELSE attributes

\* Type.python_name(), None being the empty name
python_name(a) ==
    IF a.class = "PInteger64UnsignedOut" THEN <<>>
    ELSE IF a.class = "Char_and_Length_OUT" THEN a.length
    ELSE a.name

\* Type.byref(): the text of the destinations of the argument, None being
\* the empty text.
byref(a) ==
    IF a.class \in {"Void", "PVoid"} THEN <<>>
    ELSE IF a.class = "PInteger64UnsignedOut" THEN a.name
    ELSE IF a.class = "Char_and_Length" THEN <<"&">> \o a.name \o <<",", " ", "&">> \o a.length
    ELSE IF a.class = "Char_and_Length_OUT" THEN <<"&">> \o a.length
    ELSE <<"&">> \o a.name

\* Method.find_optional_vars: the names the DEFAULT lines give a value.
find_optional_vars(default) == IF default = <<>> THEN {} ELSE {default}

\* The positions of args that pass test, in order.
Positions(args, test(_)) ==
    SelectSeq([i \in 1..Len(args) |-> i], LAMBDA i : test(args[i]))

\* Method.write_local_vars: the keyword list (mandatory names, then the
\* names with a default), the units of the format string (mandatory, then
\* after "|" the optional ones) and the destinations, each with the
\* position of the argument it comes from.
write_local_vars(args, defaults) ==
    LET kw_mandatory == Positions(args, LAMBDA a : python_name(a) # <<>>
                                                   /\ python_name(a) \notin defaults)
        kw_optional == Positions(args, LAMBDA a : python_name(a) # <<>>
                                                  /\ python_name(a) \in defaults)
        fmt_mandatory == Positions(args, LAMBDA a : TypeClasses[a.class].buildstr # ""
                                                    /\ python_name(a) \notin defaults)
        fmt_optional == Positions(args, LAMBDA a : TypeClasses[a.class].buildstr # ""
                                                   /\ python_name(a) \in defaults)
        refs == Positions(args, LAMBDA a : byref(a) # <<>>)
        kws == kw_mandatory \o kw_optional
        fmts == fmt_mandatory \o fmt_optional
    IN  [kwlist |-> [k \in 1..Len(kws) |-> [arg |-> kws[k], name |-> python_name(args[kws[k]])]],
         parse_line |-> [k \in 1..Len(fmts) |->
                            [arg |-> fmts[k], unit |-> TypeClasses[args[fmts[k]].class].buildstr,
                             optional |-> k > Len(fmt_mandatory)]],
         tmp |-> [k \in 1..Len(refs) |-> [arg |-> refs[k], ref |-> byref(args[refs[k]])]]]

NoOutput == [kwlist |-> <<>>, parse_line |-> <<>>, tmp |-> <<>>]

\* HeaderParser.METHOD_START / STRUCT_START: the method with its return type,
\* or the struct.
ArgStart ==
    /\ arg_phase = "declared"
    /\ arg_built' = [return_class |->
                        IF arg_decl.kind = "method"
                        THEN return_class(arg_registry, arg_decl.return_type) ELSE "",
                     args |-> <<>>]
    /\ arg_phase' = "open"
    /\ UNCHANGED <<arg_decl, arg_registry, arg_pos, arg_raised, arg_added, arg_out>>
    /\ UNCHANGED argrest

\* HeaderParser.METHOD_ARG / STRUCT_ATTRIBUTE for the next parameter or
\* attribute of the declaration.
ArgNext1 ==
    /\ arg_phase = "open"
    /\ arg_pos < Len(arg_decl.types)
    /\ LET type == arg_decl.types[arg_pos + 1]
           name == ParamName(arg_pos + 1)
           raised == IF arg_decl.kind = "method"
                     THEN add_arg_raises(arg_registry, type) ELSE ""
       IN  IF raised # ""
           THEN /\ arg_raised' = raised
                /\ arg_phase' = "aborted"
                /\ UNCHANGED arg_built
           ELSE /\ arg_built' =
                      [arg_built EXCEPT !.args =
                          IF arg_decl.kind = "method"
                          THEN add_arg(arg_registry, @, type, name)
                          ELSE add_attribute(arg_registry, @, name, type)]
                /\ UNCHANGED <<arg_raised, arg_phase>>
    /\ arg_pos' = arg_pos + 1
    /\ UNCHANGED <<arg_decl, arg_registry, arg_added, arg_out>>
    /\ UNCHANGED argrest

\* HeaderParser.METHOD_END / STRUCT_END: the method joins the methods of its
\* class, the struct the classes of the module.
ArgEnd ==
    /\ arg_phase = "open"
    /\ arg_pos = Len(arg_decl.types)
    /\ arg_added' = Append(arg_added, arg_built)
    /\ arg_phase' = "added"
    /\ UNCHANGED <<arg_decl, arg_registry, arg_built, arg_pos, arg_raised, arg_out>>
    /\ UNCHANGED argrest

\* Method.write_definition: write_local_vars of the method.
ArgWrite ==
    /\ arg_phase = "added"
    /\ arg_decl.kind = "method"
    /\ arg_out' = write_local_vars(arg_built.args, find_optional_vars(arg_decl.default))
    /\ arg_phase' = "written"
    /\ UNCHANGED <<arg_decl, arg_registry, arg_built, arg_pos, arg_raised, arg_added>>
    /\ UNCHANGED argrest

ArgInit ==
    /\ arg_decl \in Declarations
    /\ arg_registry = arg_dispatcher
    /\ arg_built = [return_class |-> "", args |-> <<>>]
    /\ arg_pos = 0
    /\ arg_raised = ""
    /\ arg_added = <<>>
    /\ arg_out = NoOutput
    /\ arg_phase = "declared"

ArgNext == ArgStart \/ ArgNext1 \/ ArgEnd \/ ArgWrite

(***************************************************************************)
(* The parses of a run: every HeaderParser parses the bootstrap Object     *)
(* class in its constructor and then the files it is given, each with      *)
(* parse_fd.  state, buffer, error, processed and processed_buffer become  *)
(* attributes of the instance when they are first assigned; state_stack is *)
(* the list of the class Lexer, which PUSH_STATE and POP_STATE change in   *)
(* place, so all parsers of the process share it.                          *)
(***************************************************************************)
MaxParsers == 2

\* The text of the bootstrap file of HeaderParser.__init__
BootstrapText == <<"/", "/", " ", "B", "a", "s", "e", " ", "o", "b", "j", "e", "c",
                   "t", "\n", "C", "L", "A", "S", "S", "(", "O", "b", "j", "e",
                   "c", "t", ",", " ", "O", "b", "j", ")", "\n", "E", "N", "D",
                   "_", "C", "L", "A", "S", "S", "\n">>

\* The files handed to parse_fd: a complete class, and files that end inside
\* a comment, a class and an enum.
FdFiles ==
    [complete |-> <<"C", "L", "A", "S", "S", "(", "F", "o", "o", ",", " ", "O",
                    "b", "j", ")", "\n", "E", "N", "D", "_", "C", "L", "A", "S",
                    "S", "\n">>,
     open_comment |-> <<"/", "*", " ", "x">>,
     open_class |-> <<"C", "L", "A", "S", "S", "(", "F", "o", "o", ",", " ", "O",
                      "b", "j", ")", "\n">>,
     open_enum |-> <<"e", "n", "u", "m", " ", "{", "\n">>]

\* HeaderParser(name): the attributes of the new instance are those of the
\* class, and __init__ calls parse_fd on the bootstrap file.
FdNewParser ==
    /\ ~closing
    /\ fd_parser < MaxParsers
    /\ fd_parser' = fd_parser + 1
    /\ fd_starts' = Append(fd_starts, [parser |-> fd_parser + 1, state |-> "INITIAL",
                                       state_stack |-> state_stack])
    /\ state' = "INITIAL"
    /\ buffer' = BootstrapText
    /\ error' = 0
    /\ processed' = 0
    /\ processed_buffer' = <<>>
    /\ op' = "feed"
    /\ closing' = TRUE
    /\ UNCHANGED <<state_stack, ret, rule_ix, current_state, m_end, end_seen, calls,
                   callbacks, feeds>>
    /\ UNCHANGED fdrest

\* SelfFeederMixIn.parse_fd(fd) of the newest parser on a file:
\* "self.feed(fd.read())", and the loop begins.
FdParseFd ==
    /\ ~closing
    /\ fd_parser > 0
    /\ feeds < MaxHeaders
    /\ \E f \in DOMAIN FdFiles : feed(FdFiles[f])
    /\ fd_starts' = Append(fd_starts, [parser |-> fd_parser, state |-> state,
                                       state_stack |-> state_stack])
    /\ feeds' = feeds + 1
    /\ closing' = TRUE
    /\ UNCHANGED fd_parser
    /\ UNCHANGED fdrest

\* "while self.next_token(): pass", one turn
FdParseStep ==
    /\ closing
    /\ next_token(TRUE)
    /\ closing' = Truthy(ret')
    /\ UNCHANGED <<fd_parser, fd_starts>>
    /\ UNCHANGED fdrest

\* No parser has been constructed.
FdInit ==
    /\ fd_parser = 0
    /\ fd_starts = <<>>

FdNext == FdNewParser \/ FdParseFd \/ FdParseStep

(***************************************************************************)
(* The registry from the generator to the running module: Module.write     *)
(* sizes python_wrappers and writes the code of the active classes,        *)
(* Module.initialization writes one ClassGenerator.initialise per active   *)
(* class, the module initializer runs them, and new_class_wrapper looks an *)
(* object's class up.  The classes are those of super; class 1 is the      *)
(* bootstrap class Object, which has no constructor.                       *)
(***************************************************************************)
MaxOthers == 1

\* The classes of the module: the constructor each has (a ConstructorMethod
\* when it declares or inherits a Con, the EmptyConstructor of
\* ClassGenerator.__init__ otherwise) and whether it is active.
ClassTables ==
    {t \in [NativeClasses -> [constructor : {"ConstructorMethod", "EmptyConstructor"},
                              active : BOOLEAN]] :
        t[1] = [constructor |-> "EmptyConstructor", active |-> TRUE]}

\* An element of the static array python_wrappers that nothing was assigned
\* to.
NoEntry == [class_ref |-> 0, initialize_proxies |-> FALSE]

\* The active classes among the first n, in the order of the classes.
ActiveClasses(table, n) == SelectSeq([c \in 1..n |-> c], LAMBDA c : table[c].active)

\* Module.write: private_functions sizes the array, code() of every active
\* class defines py<class>_initialize_proxies when the constructor is a
\* ConstructorMethod, and initialization() gathers the statements of
\* ClassGenerator.initialise.
RegWrite ==
    /\ reg.phase = "parsed"
    /\ LET actives == ActiveClasses(reg.classes, Len(super))
           function_definitions_ ==
               {c \in NativeClasses : /\ reg.classes[c].active
                                      /\ reg.classes[c].constructor = "ConstructorMethod"}
       IN  reg' = [reg EXCEPT
                      !.phase = "written",
                      !.capacity = Len(super) + reg.others + 1,
                      !.function_definitions = function_definitions_,
                      !.initialise =
                          [k \in 1..Len(actives) |->
                              [class_ref |-> actives[k],
                               initialize_proxies |-> actives[k] \in function_definitions_]],
                      !.python_wrappers =
                          [i \in 1..(Len(super) + reg.others + 1) |-> NoEntry]]
    /\ UNCHANGED regrest

\* The module initializer runs the statements of the next class:
\* python_wrappers[TOTAL_CLASSES] is assigned and TOTAL_CLASSES++.
RegInitialise ==
    /\ reg.phase = "written"
    /\ reg.TOTAL_CLASSES < Len(reg.initialise)
    /\ LET e == reg.initialise[reg.TOTAL_CLASSES + 1]
       IN  reg' = [reg EXCEPT
                      !.python_wrappers[reg.TOTAL_CLASSES + 1] =
                          [class_ref |-> e.class_ref,
                           initialize_proxies |->
                               IF e.initialize_proxies THEN TRUE ELSE @.initialize_proxies],
                      !.TOTAL_CLASSES = @ + 1]
    /\ UNCHANGED regrest

\* The module initializer is over.
RegReady ==
    /\ reg.phase = "written"
    /\ reg.TOTAL_CLASSES = Len(reg.initialise)
    /\ reg' = [reg EXCEPT !.phase = "running"]
    /\ UNCHANGED regrest

\* The loop of new_class_wrapper over the classes from cls up to the root
\* and over the entries below TOTAL_CLASSES: the index of the entry it
\* matches, 0 when it leaves the loop without a match.
RECURSIVE RegSearch(_, _, _)
RegSearch(wrappers_, total, cls) ==
    IF cls = super[cls] THEN 0
    ELSE IF \E i \in 1..total : wrappers_[i].class_ref = cls
    THEN SetMin({i \in 1..total : wrappers_[i].class_ref = cls})
    ELSE RegSearch(wrappers_, total, super[cls])

\* new_class_wrapper(item, ...) for an item of class cls: the entry found
\* and the call of its initialize_proxies, which does anything when the
\* pointer is NULL.
RegNewClassWrapper ==
    /\ reg.phase = "running"
    /\ ~reg.crashed
    /\ \E cls \in NativeClasses, ub \in BOOLEAN :
          LET found == RegSearch(reg.python_wrappers, reg.TOTAL_CLASSES, cls)
          IN  reg' = [reg EXCEPT
                         !.call = [class |-> cls, found |-> found],
                         !.crashed = /\ found # 0
                                     /\ ~reg.python_wrappers[found].initialize_proxies
                                     /\ ub]
    /\ UNCHANGED regrest

NoRegistry ==
    [phase |-> "idle", classes |-> <<>>, others |-> 0, capacity |-> 0,
     function_definitions |-> {}, initialise |-> <<>>, python_wrappers |-> <<>>,
     TOTAL_CLASSES |-> 0, call |-> [class |-> 0, found |-> 0], crashed |-> FALSE]

\* The headers are parsed: the classes, and the structs and enums that
\* Module.classes holds besides them.
RegInit ==
    \E t \in ClassTables, n \in 0..MaxOthers :
        reg = [NoRegistry EXCEPT !.phase = "parsed", !.classes = t, !.others = n]

RegNext == RegWrite \/ RegInitialise \/ RegReady \/ RegNewClassWrapper

(***************************************************************************)
(* The specifications: the lexer, the header parser, the emission of the   *)
(* type initialisation and the proxies, each with the others at rest.      *)
(***************************************************************************)
vars == <<lexvars, parsevars, emitvars, proxyvars, morevars>>

LexIdle ==
    /\ state = "INITIAL"
    /\ state_stack = <<>>
    /\ buffer = <<>>
    /\ error = 0
    /\ processed = 0
    /\ processed_buffer = <<>>
    /\ op = "init"
    /\ ret = None
    /\ rule_ix = 0
    /\ current_state = "INITIAL"
    /\ m_end = 0
    /\ end_seen = TRUE
    /\ calls = <<>>
    /\ callbacks = "HeaderParser"
    /\ feeds = 0
    /\ closing = FALSE

EmitIdle ==
    /\ base_of = [c \in Classes |-> NoBase]
    /\ active = [c \in Classes |-> FALSE]
    /\ done = {}
    /\ out = <<>>
    /\ frames = <<>>
    /\ key_ix = 0

ProxyIdle ==
    /\ methods = <<>>
    /\ constructor = "EmptyConstructor"
    /\ proxied = {}
    /\ function_definitions = {}
    /\ patches = <<>>
    /\ phase = "parsed"
    /\ mro = <<>>
    /\ slots = <<>>
    /\ extension = FALSE
    /\ call = NoCall

TrampIdle ==
    /\ proxied_method = [args |-> <<>>, return_type |-> "Void"]
    /\ definition = <<>>
    /\ pc = 0
    /\ gil = 0
    /\ ensured = 0
    /\ released = 0
    /\ self_extension = FALSE
    /\ py_err = FALSE
    /\ exit_path = ""

WrapIdle ==
    /\ wrapped_method = [class |-> "SelfIteratorMethod", args |-> <<>>, return_type |-> "Void"]
    /\ allow_threads = FALSE
    /\ native_calls = <<>>
    /\ mistyped = ""
    /\ py_exception = NoException

HeaderIdle ==
    /\ parsed = <<>>
    /\ header_parser = NewHeaderParser

ObjIdle ==
    /\ python_wrappers = {}
    /\ wrappers = [w \in 1..MaxWrappers |-> NoWrapper]
    /\ allocated = 0
    /\ freed = <<>>
    /\ resolved = [class |-> 0, type |-> 0]
    /\ dealloc = [self |-> NoWrapper, free |-> FALSE]
    /\ crashed = FALSE

ConvIdle ==
    /\ conversion = NoConversion
    /\ destination = 0
    /\ py_back = 0
    /\ conv_raised = FALSE
    /\ conv_pc = "idle"

SaveIdle == SaveInit

ByteIdle ==
    /\ fed = <<>>

DocIdle ==
    /\ doc = [current_comment |-> <<>>, docstrings |-> <<>>, parsed |-> <<>>]

PassIdle ==
    /\ pass_files = <<>>
    /\ pass_table = ("Object" :> ClassGenerator("Object", "Obj"))
    /\ pass_pos = 0
    /\ passes = 2

RewrapIdle ==
    /\ rw_methods = <<>>
    /\ rw_objects = <<>>
    /\ rw_slots = <<>>
    /\ rw_extension = 0
    /\ rw_runs = 0
    /\ rw_built = <<>>
    /\ rw_call = [name |-> "", via |-> "", receiver |-> 0]

ArgIdle ==
    /\ arg_decl = [kind |-> "method", return_type |-> <<>>, types |-> <<>>, default |-> <<>>]
    /\ arg_registry = arg_dispatcher
    /\ arg_built = [return_class |-> "", args |-> <<>>]
    /\ arg_pos = 0
    /\ arg_raised = ""
    /\ arg_added = <<>>
    /\ arg_out = NoOutput
    /\ arg_phase = "idle"

FdIdle ==
    /\ fd_parser = 0
    /\ fd_starts = <<>>

RegIdle ==
    /\ reg = NoRegistry

LastIdle == ByteIdle /\ DocIdle /\ PassIdle /\ RewrapIdle /\ ArgIdle /\ FdIdle /\ RegIdle

LaterIdle == ConvIdle /\ SaveIdle /\ LastIdle

MoreIdle == TrampIdle /\ WrapIdle /\ HeaderIdle /\ ObjIdle /\ LaterIdle

LexSpecInit == LexInit /\ ParseInit /\ EmitIdle /\ ProxyIdle /\ MoreIdle

ParseSpecInit == LexIdle /\ ParseInit /\ EmitIdle /\ ProxyIdle /\ MoreIdle

EmitSpecInit == LexIdle /\ ParseInit /\ EmitInit /\ ProxyIdle /\ MoreIdle

ProxySpecInit == LexIdle /\ ParseInit /\ EmitIdle /\ ProxyInit /\ MoreIdle

TrampSpecInit == LexIdle /\ ParseInit /\ EmitIdle /\ ProxyIdle /\ TrampInit /\ WrapIdle /\ HeaderIdle /\ ObjIdle
        /\ LaterIdle

WrapSpecInit ==
    LexIdle /\ ParseInit /\ EmitIdle /\ ProxyIdle /\ WrapInit /\ HeaderIdle /\ ObjIdle /\ LaterIdle

HeaderSpecInit ==
    HeaderInit /\ ParseInit /\ EmitIdle /\ ProxyIdle /\ TrampIdle /\ WrapIdle /\ ObjIdle /\ LaterIdle

ObjSpecInit ==
    LexIdle /\ ParseInit /\ EmitIdle /\ ProxyIdle /\ TrampIdle /\ WrapIdle /\ HeaderIdle /\ ObjInit
        /\ LaterIdle

ConvSpecInit ==
    LexIdle /\ ParseInit /\ EmitIdle /\ ProxyIdle /\ TrampIdle /\ WrapIdle /\ HeaderIdle /\ ObjIdle
        /\ ConvInit /\ SaveIdle /\ LastIdle

SaveSpecInit ==
    LexIdle /\ ParseInit /\ EmitIdle /\ ProxyIdle /\ TrampIdle /\ WrapIdle /\ HeaderIdle /\ ObjIdle
        /\ ConvIdle /\ SaveInit /\ LastIdle

ByteSpecInit ==
    LexIdle /\ ParseInit /\ EmitIdle /\ ProxyIdle /\ TrampIdle /\ WrapIdle /\ HeaderIdle
        /\ ObjIdle /\ ConvIdle /\ SaveIdle /\ DocIdle /\ PassIdle /\ RewrapIdle /\ ArgIdle
        /\ FdIdle /\ RegIdle /\ ByteInit

DocSpecInit ==
    LexIdle /\ ParseInit /\ EmitIdle /\ ProxyIdle /\ TrampIdle /\ WrapIdle /\ HeaderIdle
        /\ ObjIdle /\ ConvIdle /\ SaveIdle /\ ByteIdle /\ PassIdle /\ RewrapIdle /\ ArgIdle
        /\ FdIdle /\ RegIdle /\ DocInit

PassSpecInit ==
    LexIdle /\ ParseInit /\ EmitIdle /\ ProxyIdle /\ TrampIdle /\ WrapIdle /\ HeaderIdle
        /\ ObjIdle /\ ConvIdle /\ SaveIdle /\ ByteIdle /\ DocIdle /\ RewrapIdle /\ ArgIdle
        /\ FdIdle /\ RegIdle /\ PassInit

RewrapSpecInit ==
    LexIdle /\ ParseInit /\ EmitIdle /\ ProxyIdle /\ TrampIdle /\ WrapIdle /\ HeaderIdle
        /\ ObjIdle /\ ConvIdle /\ SaveIdle /\ ByteIdle /\ DocIdle /\ PassIdle /\ ArgIdle
        /\ FdIdle /\ RegIdle /\ RewrapInit

ArgSpecInit ==
    LexIdle /\ ParseInit /\ EmitIdle /\ ProxyIdle /\ TrampIdle /\ WrapIdle /\ HeaderIdle
        /\ ObjIdle /\ ConvIdle /\ SaveIdle /\ ByteIdle /\ DocIdle /\ PassIdle /\ RewrapIdle
        /\ FdIdle /\ RegIdle /\ ArgInit

FdSpecInit ==
    LexIdle /\ ParseInit /\ EmitIdle /\ ProxyIdle /\ TrampIdle /\ WrapIdle /\ HeaderIdle
        /\ ObjIdle /\ ConvIdle /\ SaveIdle /\ ByteIdle /\ DocIdle /\ PassIdle /\ RewrapIdle
        /\ ArgIdle /\ RegIdle /\ FdInit

RegSpecInit ==
    LexIdle /\ ParseInit /\ EmitIdle /\ ProxyIdle /\ TrampIdle /\ WrapIdle /\ HeaderIdle
        /\ ObjIdle /\ ConvIdle /\ SaveIdle /\ ByteIdle /\ DocIdle /\ PassIdle /\ RewrapIdle
        /\ ArgIdle /\ FdIdle /\ RegInit

LexSpec == LexSpecInit /\ [][LexNext]_vars

ParseSpec == ParseSpecInit /\ [][ParseNext]_vars

EmitSpec == EmitSpecInit /\ [][EmitNext]_vars

ProxySpec == ProxySpecInit /\ [][ProxyNext]_vars

TrampSpec == TrampSpecInit /\ [][TrampNext]_vars

WrapSpec == WrapSpecInit /\ [][WrapNext]_vars

HeaderSpec == HeaderSpecInit /\ [][HeaderNext]_vars

ConvSpec == ConvSpecInit /\ [][ConvNext]_vars

SaveSpec == SaveSpecInit /\ [][SaveNext]_vars

ByteSpec == ByteSpecInit /\ [][ByteNext]_vars

DocSpec == DocSpecInit /\ [][DocNext]_vars

PassSpec == PassSpecInit /\ [][PassNext]_vars

RewrapSpec == RewrapSpecInit /\ [][RewrapNext]_vars

ArgSpec == ArgSpecInit /\ [][ArgNext]_vars

FdSpec == FdSpecInit /\ [][FdNext]_vars

RegSpec == RegSpecInit /\ [][RegNext]_vars

ObjSpec == ObjSpecInit /\ [][ObjNext]_vars

(***************************************************************************)
(* Properties of the lexer.                                                *)
(***************************************************************************)

\* The buffer as the last next_token() found it: what it moved to the
\* processed log, followed by what it left.
PreBuffer ==
    LET n == IF rule_ix # 0 THEN m_end ELSE IF ret = "ERROR" THEN 1 ELSE 0
    IN  SubSeq(processed_buffer, Len(processed_buffer) - n + 1, Len(processed_buffer))
            \o buffer

\* Row j applies in state st and its pattern matches at the start of buf.
RowMatches(j, st, buf) == StateMatches(tokens[j], st) /\ MatchEnd(tokens[j].re, buf) # NoMatch

\* C1: next_token applies the first row, in table order, whose state
\* matcher matches the current state and whose pattern matches at the start
\* of the buffer: it consumes that row's match and runs that row's actions,
\* whatever a later row would match, and applies no row when none matches.
C1_FirstMatchWins ==
    op = "next_token" =>
        IF rule_ix # 0
        THEN /\ RowMatches(rule_ix, current_state, PreBuffer)
             /\ \A j \in 1..(rule_ix - 1) : ~RowMatches(j, current_state, PreBuffer)
             /\ m_end = MatchEnd(tokens[rule_ix].re, PreBuffer)
             /\ ret = tokens[rule_ix].token
             /\ [j \in 1..Len(calls) |-> calls[j].name] = SplitComma(tokens[rule_ix].token)
        ELSE \A j \in 1..Len(tokens) : ~RowMatches(j, current_state, PreBuffer)

\* A row was applied although a later row that applies in the same state
\* matches a longer prefix.
C1_Witness ==
    /\ op = "next_token"
    /\ rule_ix # 0
    /\ \E j \in (rule_ix + 1)..Len(tokens) :
          /\ StateMatches(tokens[j], current_state)
          /\ MatchEnd(tokens[j].re, PreBuffer) > m_end

\* C2: the lexer never live-locks: a next_token() that returns a token
\* shortens the buffer, a next_token() on an empty buffer returns None, and
\* the loop of close() goes on only while the buffer gets shorter and stops
\* on an empty buffer, so that it ends within Len(buffer) + 1 calls.
C2_NeverLiveLocks ==
    [][/\ (op' = "next_token" /\ Truthy(ret')) => Len(buffer') < Len(buffer)
       /\ (op' = "next_token" /\ buffer = <<>>) => ret' = None
       /\ (closing /\ closing') => Len(buffer') < Len(buffer)
       /\ (closing /\ buffer = <<>>) => ~closing']_vars

\* close() has drained a match and a discarded byte and emptied the buffer.
C2_Witness ==
    /\ closing
    /\ op = "next_token"
    /\ Truthy(ret)
    /\ processed > 0
    /\ error > 0
    /\ buffer = <<>>

\* C3: when no row matches, next_token discards exactly one byte, counts
\* one error and returns "ERROR", leaving the state and the stack alone,
\* exactly when end is true and the buffer is not empty or the buffer holds
\* more than 1024 bytes; otherwise it returns None and changes nothing.
C3_ErrorRecovery ==
    [][(op' = "next_token" /\ rule_ix' = 0) =>
          IF (end_seen' /\ Len(buffer) > 0) \/ Len(buffer) > 1024
          THEN /\ buffer' = Tail(buffer)
               /\ error' = error + 1
               /\ ret' = "ERROR"
               /\ state' = state
               /\ state_stack' = state_stack
          ELSE /\ ret' = None
               /\ UNCHANGED <<state, state_stack, buffer, error, processed,
                              processed_buffer>>]_vars

\* A byte was discarded with end false, because 1025 bytes were waiting.
C3_Witness ==
    /\ op = "next_token"
    /\ ret = "ERROR"
    /\ ~end_seen
    /\ Len(buffer) = 1024
    /\ error = 1

\* The callbacks of the last next_token() that returned a state.
Returned == {j \in 1..Len(calls) : calls[j].ret \notin {None, "CONTINUE", ""}}

\* C4: the actions of the matched row are dispatched left to right, all of
\* them, a name without a handler to the no-op default; the state is then
\* the last state a handler returned, else the row's explicit next state,
\* else the state the call started in.
C4_ActionDispatch ==
    (op = "next_token" /\ rule_ix # 0) =>
        /\ [j \in 1..Len(calls) |-> calls[j].name] = SplitComma(tokens[rule_ix].token)
        /\ \A j \in 1..Len(calls) :
              calls[j].name \notin HeaderHandlers \cup {"PUSH_STATE", "POP_STATE"} =>
                  /\ calls[j].ret = None
                  /\ calls[j].state_after = calls[j].state_before
                  /\ calls[j].stack_after = calls[j].stack_before
        /\ \A j \in 1..Len(calls) :
              calls[j].ret \in {None, "CONTINUE"} =>
                  calls[j].state_after = calls[j].state_before
        /\ state = IF Returned # {} THEN calls[SetMax(Returned)].ret
                   ELSE IF tokens[rule_ix].next # None THEN tokens[rule_ix].next
                   ELSE current_state

\* A handler answered "CONTINUE", the action after it still ran and returned
\* the state the lexer is now in.
C4_Witness ==
    /\ op = "next_token"
    /\ Len(calls) = 2
    /\ calls[1].ret = "CONTINUE"
    /\ calls[2].name = "POP_STATE"
    /\ calls[2].ret \in LexStates
    /\ state = calls[2].ret
    /\ state # current_state

\* C5: PUSH_STATE appends the state current when it runs; POP_STATE removes
\* the state pushed last and makes it the current state; POP_STATE on an
\* empty stack returns without raising and leaves state and stack alone.
C5_StateStackLifo ==
    \A j \in 1..Len(calls) :
        /\ calls[j].name = "PUSH_STATE" =>
              /\ calls[j].stack_after = Append(calls[j].stack_before, calls[j].state_before)
              /\ calls[j].state_after = calls[j].state_before
        /\ (calls[j].name = "POP_STATE" /\ calls[j].stack_before # <<>>) =>
              /\ calls[j].state_after = calls[j].stack_before[Len(calls[j].stack_before)]
              /\ calls[j].stack_after =
                    SubSeq(calls[j].stack_before, 1, Len(calls[j].stack_before) - 1)
        /\ (calls[j].name = "POP_STATE" /\ calls[j].stack_before = <<>>) =>
              /\ calls[j].state_after = calls[j].state_before
              /\ calls[j].stack_after = <<>>

\* POP_STATE took the newer of two pushed states and left the older.
C5_Witness ==
    \E j \in 1..Len(calls) :
        /\ calls[j].name = "POP_STATE"
        /\ Len(calls[j].stack_before) = 2
        /\ calls[j].stack_before[1] # calls[j].stack_before[2]
        /\ state = calls[j].stack_before[2]
        /\ state_stack = <<calls[j].stack_before[1]>>

\* POP_STATE ran on an empty stack.
PopOnEmptyStack ==
    \E j \in 1..Len(calls) : calls[j].name = "POP_STATE" /\ calls[j].stack_before = <<>>

(***************************************************************************)
(* Properties of the class table.                                          *)
(***************************************************************************)

\* The method names of a list, as a set.
NameSet(ms) == {ms[i].name : i \in 1..Len(ms)}

\* METHOD_START takes the declaration d, made in class class_name, for that
\* class's constructor.
DeclaresConstructor(d, class_name) == d.type = class_name /\ startswith_Con(d.name)

\* The method the declaration d declares in class class_name.
DeclaredMethod(d, class_name) ==
    [kind |-> "Method", name |-> d.name, class_name |-> class_name,
     definition_class_name |-> class_name, myclass |-> class_name,
     return_type |-> d.type, modifier |-> d.modifier]

\* CLASS_START has just seeded a class from a base that was in the table:
\* its methods are the base's, name by name.
SeededFromBase ==
    (handler = "CLASS_START" /\ decl.type \in DOMAIN before) =>
        /\ classes[decl.name].cloned
        /\ Names(classes[decl.name].methods) = Names(before[decl.type].methods)

\* The declaration of a method has just ended in a cloned class: the method
\* replaced the entry of its name where it was, or was appended.
ReplacedOrAppended ==
    LET old == before[current_class].methods
        new == classes[current_class].methods
        at == {i \in 1..Len(old) : old[i].name = decl.name}
    IN  IF at # {}
        THEN /\ Len(new) = Len(old)
             /\ \A i \in 1..Len(old) :
                   new[i] = IF i \in at THEN DeclaredMethod(decl, current_class) ELSE old[i]
        ELSE new = Append(old, DeclaredMethod(decl, current_class))

\* No class holds two methods of one name, and a cloned class holds the
\* methods it inherited where it inherited them.
NothingDuplicatedOrMoved ==
    \A c \in DOMAIN classes :
        /\ \A i, j \in 1..Len(classes[c].methods) :
              classes[c].methods[i].name = classes[c].methods[j].name => i = j
        /\ classes[c].cloned =>
              /\ Len(classes[c].inherited) <= Len(classes[c].methods)
              /\ \A i \in 1..Len(classes[c].inherited) :
                    classes[c].methods[i].name = classes[c].inherited[i]

\* C6 as the specification words it: every METHOD declared in a cloned class
\* replaces the inherited entry of its name, and every other METHOD that
\* does not declare the constructor is appended.
C6_EveryMethodReplacesOrAppends ==
    /\ SeededFromBase
    /\ (handler = "METHOD_END" /\ classes[current_class].cloned) =>
          IF decl.name \notin NameSet(before[current_class].methods)
                 /\ DeclaresConstructor(decl, current_class)
          THEN TRUE
          ELSE ReplacedOrAppended
    /\ NothingDuplicatedOrMoved

\* C6: a class declared with a base that is in the class table starts with
\* the base's method names in the base's order; a METHOD declared in it that
\* is neither PRIVATE nor the constructor replaces the entry of its name at
\* the same index or, when there is none, is appended at the end; a PRIVATE
\* METHOD and the constructor leave the list as it is; the list never holds
\* a name twice and no inherited method is removed or moved.
C6_MethodListInheritance ==
    /\ SeededFromBase
    /\ (handler = "METHOD_END" /\ classes[current_class].cloned) =>
          IF decl.modifier = "PRIVATE" \/ DeclaresConstructor(decl, current_class)
          THEN classes[current_class].methods = before[current_class].methods
          ELSE ReplacedOrAppended
    /\ NothingDuplicatedOrMoved

\* Derived redeclared the first of two inherited methods: the new method
\* stands first and the inherited one still stands second.
C6_Witness ==
    /\ handler = "METHOD_END"
    /\ current_class = "Derived"
    /\ classes["Derived"].cloned
    /\ Len(classes["Derived"].inherited) = 2
    /\ Len(classes["Derived"].methods) = 2
    /\ classes["Derived"].methods[1].definition_class_name = "Derived"
    /\ before["Derived"].methods[1].definition_class_name = "Base"
    /\ classes["Derived"].methods[2].definition_class_name = "Base"

\* A PRIVATE method was declared under the name of an inherited method.
C6_PrivateRedeclaration ==
    /\ handler = "METHOD_END"
    /\ classes[current_class].cloned
    /\ decl.modifier = "PRIVATE"
    /\ decl.name \in NameSet(before[current_class].methods)

\* The header positions of the CLASS declarations of class c.
BlocksOf(c) == {i \in 1..Len(header) : header[i].kind = "CLASS" /\ header[i].name = c}

\* The names of the methods the block that starts at header position i adds
\* to its class c: those of its METHODs that are not PRIVATE and are not the
\* constructor.
OwnNames(i, c) ==
    LET last == SetMin({j \in (i + 1)..(Len(header) + 1) :
                           j = Len(header) + 1 \/ header[j].kind = "END_CLASS"})
    IN  {header[j].name : j \in {k \in (i + 1)..(last - 1) :
                                    /\ header[k].modifier # "PRIVATE"
                                    /\ ~DeclaresConstructor(header[k], c)}}

\* Class c is declared once, with base b, before the one block of b.
ForwardReference(c, b) ==
    /\ c # b
    /\ Cardinality(BlocksOf(c)) = 1
    /\ Cardinality(BlocksOf(b)) = 1
    /\ SetMin(BlocksOf(c)) < SetMin(BlocksOf(b))
    /\ header[SetMin(BlocksOf(c))].type = b

\* C8: when CLASS(Derived, Base) is parsed before the block of Base, Derived
\* is after the first pass an un-cloned generator that holds the methods of
\* its own block and no other, and holds after the second pass every method
\* of the block of Base, as Base declared it unless Derived redeclared it,
\* and the methods of its own block.
C8_ForwardBaseReference ==
    \A c, b \in {"Base", "Derived"} :
        (pass_no >= 2 /\ ForwardReference(c, b)) =>
            LET own == OwnNames(SetMin(BlocksOf(c)), c)
                inherited == OwnNames(SetMin(BlocksOf(b)), b)
            IN  /\ ~pass1[c].cloned
                /\ NameSet(pass1[c].methods) = own
                /\ \A i \in 1..Len(pass1[c].methods) :
                      pass1[c].methods[i].definition_class_name = c
                /\ pass_no = 3 =>
                      /\ classes[c].cloned
                      /\ own \cup inherited \subseteq NameSet(classes[c].methods)
                      /\ \A i \in 1..Len(classes[c].methods) :
                            classes[c].methods[i].definition_class_name =
                                IF classes[c].methods[i].name \in own THEN c ELSE b

\* Both passes are over; Derived came before Base, declared a method of its
\* own and holds a method that only Base declared.
C8_Witness ==
    /\ pass_no = 3
    /\ ForwardReference("Derived", "Base")
    /\ pass1["Derived"].methods # <<>>
    /\ \E i \in 1..Len(classes["Derived"].methods) :
          /\ classes["Derived"].methods[i].definition_class_name = "Base"
          /\ classes["Derived"].methods[i].name \notin NameSet(pass1["Derived"].methods)

(***************************************************************************)
(* Properties of the emitted type initialisation.                          *)
(***************************************************************************)

\* The class n steps up the chain of bases from class_name, NoBase once the
\* chain has ended.
RECURSIVE Up(_, _)
Up(class_name, n) ==
    IF n = 0 \/ class_name = NoBase THEN class_name ELSE Up(base_of[class_name], n - 1)

\* The class table is an inheritance forest: every chain of bases ends.
Forest == \A c \in Classes : Up(c, NumClasses) = NoBase

\* The positions of out that hold the line e.
Written(e) == {i \in 1..Len(out) : out[i] = e}

\* Module.write has left its loop over the classes.
EmitOver == key_ix = NumClasses /\ frames = <<>>

\* C7: for an inheritance forest, the PyType_Ready block of a class is never
\* written twice and, when the emission is over, is written once for every
\* active class and for no other; the tp_base assignment of a class is
\* written only after the block of its base, and the block of a class whose
\* base is emitted only after its tp_base assignment.
C7_InitOrder ==
    Forest =>
        /\ \A c \in Classes : Cardinality(Written(<<"PyType_Ready", c>>)) <= 1
        /\ EmitOver =>
              \A c \in Classes :
                  Cardinality(Written(<<"PyType_Ready", c>>)) = IF active[c] THEN 1 ELSE 0
        /\ \A c \in Classes :
              \A t \in Written(<<"tp_base", c>>) :
                  /\ base_of[c] # NoBase
                  /\ \E r \in Written(<<"PyType_Ready", base_of[c]>>) : r < t
        /\ \A c \in Classes :
              (active[c] /\ base_of[c] # NoBase /\ active[base_of[c]]) =>
                  \A r \in Written(<<"PyType_Ready", c>>) :
                      \E t \in Written(<<"tp_base", c>>) : t < r

\* The emission is over for a chain of three active classes that the loop
\* met derived class first.
C7_Witness ==
    /\ EmitOver
    /\ Forest
    /\ \E c \in Classes :
          /\ base_of[c] # NoBase
          /\ base_of[base_of[c]] # NoBase
          /\ c < base_of[c]
          /\ base_of[c] < base_of[base_of[c]]
          /\ active[c] /\ active[base_of[c]] /\ active[base_of[base_of[c]]]

(***************************************************************************)
(* Properties of the proxies.                                              *)
(***************************************************************************)

\* The place of the wrapper type of the wrapped class in tp_mro.
WrapperIndex == SetMin({i \in 1..Len(mro) : mro[i].wraps = WrappedClass})

\* A type before the wrapper type in tp_mro defines a method called name.
Overridden(name) == \E i \in 1..(WrapperIndex - 1) : name \in mro[i].dict

\* C9: a method called close is never given a proxy, whatever its modifier:
\* it never has the attribute proxied, no trampoline is defined for it, no
\* statement of initialize_proxies names it, its slot holds the native
\* implementation whatever the managed classes override, and a native call
\* of close never goes through a trampoline.
C9_CloseNeverProxied ==
    /\ \A i \in 1..Len(methods) : methods[i].name = "close" => i \notin proxied
    /\ \A f \in function_definitions : ~(f[1] = "Proxied" /\ f[3] = "close")
    /\ \A k \in 1..Len(patches) : patches[k].name # "close"
    /\ (phase = "constructed" /\ "close" \in DOMAIN slots) =>
          slots["close"] = NativeImpl("close")
    /\ call.name = "close" => call.via = "native" /\ ~call.entered

\* Native code called close on a wrapper whose managed class overrides
\* close, declared ABSTRACT in the header.
C9_Witness ==
    /\ phase = "constructed"
    /\ call.name = "close"
    /\ Overridden("close")
    /\ \E i \in 1..Len(methods) :
          methods[i].name = "close" /\ methods[i].modifier = "ABSTRACT"

\* The slot of the method called name holds the trampoline written for it.
Trampolined(name) ==
    /\ slots[name] # NativeImpl(name)
    /\ slots[name][1] = "Proxied"
    /\ slots[name][3] = name
    /\ slots[name] \in function_definitions

\* The last native call went as the slots demand: an un-overridden method
\* ran natively without entering the managed runtime, and an overridden
\* method among names ran the override of the most derived managed class
\* that has one, whose result came back converted.
NativeCallsFollowSlots(names) ==
    call.name # "" =>
        /\ ~Overridden(call.name) => (call.via = "native" /\ ~call.entered)
        /\ (Overridden(call.name) /\ call.name \in names) =>
              /\ call.via = "trampoline"
              /\ call.entered
              /\ call.receiver < WrapperIndex
              /\ call.name \in mro[call.receiver].dict
              /\ \A i \in 1..(call.receiver - 1) : call.name \notin mro[i].dict
              /\ ~call.raised => call.ret = from_python_object(call.py_result)

Patchable == {name \in DOMAIN slots : name # "close" /\ ~startswith_underscore(name)}

C10_CloseOverridden ==
    /\ phase = "constructed"
    /\ "close" \in DOMAIN slots
    /\ Overridden("close")

(***************************************************************************)
(* The interpreter lock in a trampoline.                                   *)
(***************************************************************************)
\* The trampoline has been called and has returned.
Left == pc = 0 /\ exit_path # ""

\* C11: every trampoline takes the interpreter lock exactly once, as its
\* first statement, and gives it back exactly once on every way out (the
\* normal return, a failed conversion of an argument, a missing extension,
\* an exception of the Python method, a failed conversion of the result):
\* it never returns holding the lock and never releases it twice.
C11_GilBracket ==
    /\ gil = ensured - released
    /\ released <= ensured
    /\ ensured <= 1
    /\ pc > 1 => ensured = 1
    /\ pc > 1 /\ released = 0 => gil = 1
    /\ Left => ensured = 1 /\ released = 1 /\ gil = 0
    /\ Left => exit_path \in {"return", "argument conversion", "no extension", "exception",
                              "result conversion"}

C11_Witness ==
    /\ Left
    /\ exit_path = "result conversion"
    /\ Len(proxied_method.args) = MaxArgs
    /\ released = 1


\* C12: in every wrapper function the wrapped function of the native
\* library runs between Py_BEGIN_ALLOW_THREADS and Py_END_ALLOW_THREADS, and
\* the wrapper gives up the interpreter lock nowhere else.
C12_NativeCallBracketed ==
    /\ \A i \in 1..Len(native_calls) : native_calls[i]
    /\ allow_threads => pc > 0 /\ definition[pc].op \in {"call", "Py_END_ALLOW_THREADS"}

\* C18 as stated: an object that does not derive from the wrapper type
\* expected for an argument makes the call fail with a TypeError that names
\* the expected class, the native function not called.
C18_TypeError ==
    mistyped # "" =>
        /\ py_exception.exception = "PyExc_TypeError"
        /\ py_exception.type = mistyped
        /\ native_calls = <<>>

\* C18: an object that does not derive from the wrapper type expected for an
\* argument makes the call fail with a RuntimeError "must be derived from
\* type" that names the expected class; the wrapper goes to on_error and
\* returns without calling the native function.
C18_RuntimeError ==
    mistyped # "" =>
        /\ py_exception = [exception |-> "PyExc_RuntimeError",
                           text |-> "must be derived from type", type |-> mistyped]
        /\ native_calls = <<>>
        /\ ~allow_threads
        /\ pc > 0 => /\ definition[pc].op \in {"label", "return"}
                     /\ definition[pc].type \in {"on_error", "NULL", "-1"}
        /\ pc = 0 => exit_path = "pre_call"

C18_Witness ==
    /\ Left /\ mistyped = "Derived" /\ exit_path = "pre_call"
    /\ wrapped_method.class = "ConstructorMethod" /\ Len(wrapped_method.args) = MaxArgs

\* The header h alone has been parsed to its end.
ParsedOnly(h) == parsed = <<h>> /\ ~closing

\* Class Foo holds one method, Bar, that returns an integer and takes one IN
\* integer argument x, its format string being "i".
FooBarTakesX ==
    /\ <<"F", "o", "o">> \in DOMAIN header_parser.classes
    /\ LET ms == header_parser.classes[<<"F", "o", "o">>].methods
       IN  /\ Len(ms) = 1
           /\ ms[1].name = <<"B", "a", "r">>
           /\ ms[1].kind = "Method"
           /\ ms[1].return_type \in DOMAIN header_parser.type_dispatcher
           /\ header_parser.type_dispatcher[ms[1].return_type] = "Integer"
           /\ Len(ms[1].args) = 1
           /\ ms[1].args[1].name = <<"x">>
           /\ ms[1].args[1].class = "Integer"
           /\ TypeClasses["Integer"].sense = "IN"
           /\ parse_line(ms[1].args) = "i"

\* C13 as stated: parsing CLASS(Foo, Obj) with "int METHOD(Foo, Bar, IN int,
\* x);" gives Foo one method Bar with one IN integer argument x, an integer
\* return and the format string "i".
C13_CommaArgument == ParsedOnly("method_comma") => FooBarTakesX

\* C13: parsing CLASS(Foo, Obj) with "int METHOD(Foo, Bar, int x);" gives Foo
\* one method Bar with one IN integer argument x, an integer return and the
\* format string "i", without a lexer error; written "IN int, x" the
\* argument is lost: Bar is left with no argument and an empty format
\* string, and the lexer counts one error for the byte x.
C13_Argument ==
    /\ ParsedOnly("method") => FooBarTakesX /\ error = 0 /\ state = "INITIAL"
    /\ ParsedOnly("method_comma") =>
          /\ <<"F", "o", "o">> \in DOMAIN header_parser.classes
          /\ LET ms == header_parser.classes[<<"F", "o", "o">>].methods
             IN  /\ Len(ms) = 1
                 /\ ms[1].name = <<"B", "a", "r">>
                 /\ ms[1].args = <<>>
                 /\ parse_line(ms[1].args) = ""
          /\ error = 1
          /\ state = "INITIAL"

C13_Witness ==
    /\ ParsedOnly("method")
    /\ <<"F", "o", "o">> \in DOMAIN header_parser.classes
    /\ Len(header_parser.classes[<<"F", "o", "o">>].methods) = 1
    /\ Len(header_parser.classes[<<"F", "o", "o">>].methods[1].args) = 1

\* C14: parsing "enum Color { RED = 0, GREEN = 1, BLUE = 2 };" registers
\* exactly one Enum, Color, with the values RED, GREEN, BLUE in order, adds
\* the integer constants RED, GREEN and BLUE, and leaves the lexer in the
\* state it was in before the enum.
C14_EnumRegistered ==
    ParsedOnly("enum_line") =>
        /\ {n \in DOMAIN header_parser.classes : header_parser.classes[n].kind = "Enum"}
              = {<<"C", "o", "l", "o", "r">>}
        /\ header_parser.classes[<<"C", "o", "l", "o", "r">>].values = <<<<"R", "E", "D">>, <<"G", "R", "E", "E",
                                                              "N">>, <<"B", "L",
                                                                       "U", "E">>>>
        /\ header_parser.constants =
              {<<<<"R", "E", "D">>, "integer">>, <<<<"G", "R", "E", "E", "N">>, "integer">>, <<<<"B", "L", "U",
                                                                 "E">>, "integer">>}
        /\ state = "INITIAL"
        /\ state_stack = <<>>

\* The name may be exported: longer than 3, no leading underscore, no
\* lower-case letter, not in the blacklist.
Exportable(name) ==
    /\ Len(name) > 3
    /\ name[1] # "_"
    /\ \A i \in 1..Len(name) : name[i] \notin Lower
    /\ name # <<"T", "S", "K", "3", "_", "H", "_">>

\* C15 as stated: whatever headers have been parsed, every constant of the
\* module is longer than 3, starts with no underscore, is upper-case and is
\* not in the blacklist.
C15_ConstantsFiltered ==
    \A c \in header_parser.constants : Exportable(c[1])

\* C15: whatever headers have been parsed, a constant enters the module
\* either with a name that is longer than 3, starts with no underscore, is
\* upper-case and is not in the blacklist, or as an integer constant that
\* ENUM_END adds for a value of the enum it closes, whatever the name; no
\* constant ever leaves the module.
C15_DefinesFiltered ==
    [][/\ header_parser.constants \subseteq header_parser'.constants
       /\ \A c \in header_parser'.constants \ header_parser.constants :
             \/ Exportable(c[1])
             \/ /\ ret' \in {"POP_STATE,ENUM_END", "POP_STATE,TYPEDEFED_ENUM_END"}
                /\ c[2] = "integer"
                /\ \E i \in 1..Len(header_parser.current_enum.values) :
                      header_parser.current_enum.values[i] = c[1]]_vars

C15_Witness ==
    /\ ~closing
    /\ parsed = <<"defines", "guarded_enum">>
    /\ header_parser.constants =
          {<<<<"M", "A", "X", "_", "S", "I", "Z", "E">>, "integer">>, <<<<"G", "R", "E", "E", "T", "I", "N", "G">>, "string">>,
           <<<<"r", "w">>, "integer">>, <<<<"_", "X">>, "integer">>}

\* The entry of the registry nearest to cls on its chain of superclasses,
\* the root included; 0 when the chain holds no registered class.
RECURSIVE Nearest(_, _)
Nearest(registry, cls) ==
    IF \E e \in registry : e.class_ref = cls THEN cls
    ELSE IF cls = super[cls] THEN 0
    ELSE Nearest(registry, super[cls])

C17_MostSpecificRegistered ==
    resolved.class # 0 =>
        /\ resolved.type = Nearest(python_wrappers, resolved.class)
        /\ ~crashed

\* The managed integer of the conversion lies in the range of its int_type.
InRange == 
    /\ conversion.source >= IntMin(conversion.int_type)
    /\ conversion.source <= IntMax(conversion.int_type)

\* C19: for every fixed-width integer variant, converting a managed integer
\* outside the variant's range raises an error instead of storing a
\* truncated or wrapped value, and converting an in-range value to native
\* and back returns the same value.
C19_RangeChecked ==
    /\ conv_pc \in {"native", "back"} /\ ~InRange => conv_raised
    /\ conv_pc = "back" /\ InRange => py_back = conversion.source

\* C20: after save_state is called with no errors recorded, every later
\* restore_state returns the lexer to the saved current state, state stack,
\* processed count, processed log and error counter, whatever was fed and
\* lexed in between and however often the state was restored before; and
\* save_state called while the error counter is non-zero leaves the saved
\* state as it was.
C20_SaveRestoreRoundTrip ==
    /\ op = "restore_state" /\ snapshot.set =>
          /\ state = snapshot.state
          /\ state_stack = snapshot.state_stack
          /\ processed = snapshot.processed
          /\ processed_buffer = snapshot.processed_buffer
          /\ error = snapshot.error
    /\ saved_state.set = snapshot.set
    /\ saved_state.set =>
          /\ saved_state.state = snapshot.state
          /\ saved_state.processed = snapshot.processed
          /\ saved_state.processed_buffer = snapshot.processed_buffer
          /\ saved_state.error = snapshot.error

\* C27: byte conservation in the lexer: after any sequence of feed and
\* next_token calls, matches and error discards alike, the processed log
\* followed by the unconsumed buffer is all the data fed so far, and the
\* processed byte count is the length of the processed log.
C27_ByteConservation ==
    /\ processed_buffer \o buffer = fed
    /\ processed = Len(processed_buffer)

\* The text cs holds the text w.
Holds(cs, w) == \E i \in 0..(Len(cs) - Len(w)) : SubSeq(cs, i + 1, i + Len(w)) = w

\* C21: a blank line between two constructs clears the pending docstring:
\* the docstring attached to a class or a method never contains comment
\* text that a blank line separates from that declaration, also when the
\* blank line directly follows the end of a comment or follows other
\* whitespace.
C21_BlankLineClearsDocstring ==
    \A i \in DOMAIN doc.docstrings : ~Holds(doc.docstrings[i].docstring, <<"o",
                                                                           "l",
                                                                           "d">>)

\* The blocks of the files with every base before its subclasses.
BasesFirst(fs) ==
    [i \in 1..3 |-> CHOOSE b \in {fs[j] : j \in 1..3} :
                        b.name = <<"Base", "Derived", "Leaf">>[i]]

\* The methods of a class, each with the class that defines it.
MethodsOf(cls) ==
    {<<cls.methods[i].name, cls.methods[i].definition_class_name>> :
        i \in 1..Len(cls.methods)}

\* C22: after parse_filenames has run its two passes every forward reference
\* is resolved: for any declaration order and any inheritance depth, every
\* class has the methods of all of its ancestors, except those it redeclares,
\* as if every base had been declared before its subclasses.
C22_ForwardReferencesResolved ==
    passes = 2 =>
        LET ordered == ParsedFiles(("Object" :> ClassGenerator("Object", "Obj")),
                                   BasesFirst(pass_files))
        IN  \A c \in DOMAIN ChainBase : MethodsOf(pass_table[c]) = MethodsOf(ordered[c])

\* C23: the patch decision of a native instance is taken once, at
\* construction: afterwards nothing runs the patch step again, changes a
\* method slot, or moves the back-pointer (extension) away from the managed
\* object that constructed the instance (object 1).
C23_PatchedOnceAtConstruction ==
    rw_objects # <<>> => /\ rw_runs = 1
                         /\ rw_slots = rw_built
                         /\ rw_extension = 1

\* The positions of the arguments the entries of a list of write_local_vars
\* come from, in the order of the list.
Owners(list) == [k \in 1..Len(list) |-> list[k].arg]

\* C24: no argument of a generated method whose sense is OUT or OUT_DONE
\* contributes a unit to the format string or a name to the keyword list:
\* not an OUT integer pointer, not an OUT string fused with a following
\* length, not an OUT string that no integer follows.
C24_OutArgsNotParsed ==
    arg_phase = "written" =>
        \A i \in 1..Len(arg_built.args) :
            TypeClasses[arg_built.args[i].class].sense \in {"OUT", "OUT_DONE"} =>
                /\ \A k \in 1..Len(arg_out.kwlist) : arg_out.kwlist[k].arg # i
                /\ \A k \in 1..Len(arg_out.parse_line) : arg_out.parse_line[k].arg # i

\* C25: add_arg fuses a string pointer and an integer into one Char_and_Length
\* or Char_and_Length_OUT only when the integer follows the string
\* immediately in the declared parameter list, and never fuses a fused pair
\* with a third parameter.
C25_OnlyAdjacentFused ==
    (arg_decl.kind = "method" /\ arg_phase \in {"open", "added", "written"}) =>
        \A i \in 1..Len(arg_built.args) :
            arg_built.args[i].class \in {"Char_and_Length", "Char_and_Length_OUT"} =>
                \E p \in 1..(Len(arg_decl.types) - 1) :
                    /\ arg_built.args[i].name = ParamName(p)
                    /\ arg_built.args[i].length = ParamName(p + 1)

\* Is the spelling type resolved by the registry, for a parameter of a method
\* or an attribute of a struct?
Resolved(kind, type) ==
    \/ type \in DOMAIN arg_dispatcher
    \/ kind = "method" /\ typedefed(type) \in DOMAIN arg_dispatcher

\* The declared names the elements of args stand for, in the order of args.
RECURSIVE ElementNames(_)
ElementNames(args) ==
    IF args = <<>> THEN <<>>
    ELSE <<args[1].name>> \o (IF args[1].length # <<>> THEN <<args[1].length>> ELSE <<>>)
             \o ElementNames(Tail(args))

\* The names of the first n declared parameters whose type is resolved.
ResolvedNames(n) ==
    LET ps == SelectSeq([i \in 1..n |-> i],
                        LAMBDA i : Resolved(arg_decl.kind, arg_decl.types[i]))
    IN  [k \in 1..Len(ps) |-> ParamName(ps[k])]

\* C26: an unresolved type never aborts parsing: no exception leaves a
\* handler, only the element of the unresolved type is left out, an
\* unresolved return type gives the void pointer, the method or struct is
\* added with its other elements in declared order, and the type registry
\* is as it was.
C26_UnresolvedTypeSkipped ==
    /\ arg_raised = ""
    /\ arg_phase # "aborted"
    /\ arg_registry = arg_dispatcher
    /\ arg_phase \in {"open", "added", "written"} =>
          /\ ElementNames(arg_built.args) = ResolvedNames(arg_pos)
          /\ (arg_decl.kind = "method" /\ arg_decl.return_type \notin DOMAIN arg_dispatcher)
                 => arg_built.return_class = "PVoid"
    /\ arg_phase \in {"added", "written"} =>
          /\ arg_added = <<arg_built>>
          /\ ElementNames(arg_added[1].args) = ResolvedNames(Len(arg_decl.types))

\* A method whose return type and whose first of three parameters are
\* unresolved has been added with its two other parameters.
C26_Witness ==
    /\ arg_phase = "added"
    /\ arg_decl.kind = "method"
    /\ arg_decl.return_type = <<"f", "o", "o", "_", "t">>
    /\ arg_decl.types = <<<<"f", "o", "o", "_", "t">>, <<"i", "n", "t">>, <<"c", "h", "a", "r", " ", "*">>>>
    /\ Len(arg_added[1].args) = 2

\* C28: the keyword list, the format string and the destinations of
\* PyArg_ParseTupleAndKeywords are aligned position by position: as many
\* entries, the i-th of each from the same declared argument, for all
\* argument types and wherever the arguments with DEFAULT values stand.
C28_ParserListsAligned ==
    arg_phase = "written" =>
        /\ Owners(arg_out.kwlist) = Owners(arg_out.parse_line)
        /\ Owners(arg_out.parse_line) = Owners(arg_out.tmp)

\* C29: every parse_fd call starts from a clean lexer state: the state is
\* INITIAL and the state stack is empty at the start of the bootstrap parse
\* of every HeaderParser and of every file, whatever was parsed before.
C29_ParseStartsClean ==
    \A i \in DOMAIN fd_starts :
        /\ fd_starts[i].state = "INITIAL"
        /\ fd_starts[i].state_stack = <<>>

\* C30: whenever new_class_wrapper selects an entry of the registry and calls
\* its initialize_proxies, the initializer was set during module
\* initialisation: every registered entry, also that of a class declared
\* without a constructor, has an initialize_proxies, and the number of
\* entries never exceeds the capacity of the registry.
C30_InitializerSet ==
    /\ reg.call.found # 0 => reg.python_wrappers[reg.call.found].initialize_proxies
    /\ \A i \in 1..reg.TOTAL_CLASSES : reg.python_wrappers[i].initialize_proxies
    /\ reg.TOTAL_CLASSES <= reg.capacity
    /\ ~reg.crashed

====
